---- MODULE Spec2Model ----
(***************************************************************************)
(* Rule-expression engine and audit-policy enforcement runner.             *)
(*                                                                         *)
(* The module models                                                       *)
(*   - AuditPolicyManager.get_policy / _find_policy_by_name                *)
(*     (rules/audit_policy_manager.py),                                    *)
(*   - AuditRunner.run_audit and AuditRunner.should_fail                   *)
(*     (rules/audit_runner_core.py),                                       *)
(*   - DatasetValidator.validate (rules/dataset_validator.py),             *)
(*   - AuditPolicy.get_exit_code, to_dict and from_dict                    *)
(*     (rules/audit_policy.py),                                            *)
(*   - validate_dataset_against_rules (rules/rule_engine.py),              *)
(*   - RuleParser and RuleEvaluator (rules/rule_parser.py,                 *)
(*     cli/cli_rules_command.py, tests/test_rule_validation_cases.py),     *)
(*   - ExpectationValidator.validate_dataset                               *)
(*     (rules/rule_expectation_engine.py),                                 *)
(*   - DriftReport.add_violation (reporting/drift_report.py).              *)
(*                                                                         *)
(* Python values are modelled as follows.  A dict is a record whose        *)
(* DOMAIN is exactly the set of keys the code has stored; a list is a      *)
(* sequence; an Optional value is the empty sequence (None) or a one       *)
(* element sequence; an Optional[str] is the string "None" or the name.    *)
(* Enum members are modelled by their .value strings.                      *)
(***************************************************************************)
EXTENDS Integers, Sequences, FiniteSets, TLC

VARIABLES
    store,         \* policy files the manager can find: name -> AuditPolicy
    policy_cache,  \* AuditPolicyManager._policy_cache: name -> AuditPolicy
    policyArg,     \* run_audit's `policy` argument: <<"name", n>> or <<"object", p>>
    readable,      \* whether pd.read_csv(dataset_path) succeeds
    pc,            \* position of the run_audit call
    resolved,      \* resolved_policy: <<>> before resolution, <<p>> after
    idx,           \* 1-based index of the next rule of the loop in validate
    violations,    \* the list `violations` built by validate
    results,       \* the dict returned by run_audit: <<>> or <<dict>>
    raised,        \* the exception propagating out of run_audit, "None" if none
    datasetRead,   \* history: pd.read_csv has been called
    evaluated,     \* history: indices of the rules evaluated, in order
    outcomes,      \* history: outcome of each evaluation, parallel to evaluated
    vsrc,          \* history: index of the rule of each violation
    exitArgs,      \* arguments of a get_exit_code call: <<>> or <<args>>
    exitCode,      \* value returned by that call: <<>> or <<int>>
    applyArgs,     \* audit_results handed to apply_exit_logic: <<>> or <<dict>>
    processExit,   \* how apply_exit_logic ended: <<>>, <<[kind |-> "exit", code |-> n]>>
                   \* or <<[kind |-> "return"]>>
    rule_defs,     \* the "rules" list validate_dataset_against_rules loaded; its loop
                   \* uses idx, violations, evaluated, outcomes, vsrc, results and pc
    evalArgs,      \* <<>> or <<[ast |-> .., context |-> ..]>>: arguments of evaluate_ast
    evalResult,    \* <<>> or <<r>>: how evaluate_ast(ast, context) ended
    statArgs,      \* <<>> or <<a>>: arguments of missing_rate / unique_count on the cache
    statResult,    \* <<>> or <<v>>: the value the statistic function returned
    parseArgs,     \* <<>> or <<rule_string>>: the argument of tokenize and of parse,
                   \* a string as the sequence of its characters
    tokenizeResult,\* <<>> or <<r>>: how tokenize(rule_string) ended
    parseResult,   \* <<>> or <<r>>: how parse(rule_string) ended
    buildArgs,     \* <<>> or <<tokens>>: the argument of build_ast
    buildResult,   \* <<>> or <<r>>: how build_ast(tokens) ended
    contextNow,    \* <<>> or <<c>>: the profiling context object as it is now
    statsNow,      \* <<>> or <<s>>: StatisticsCache.stats as it is now
    parseCalls,    \* <<>> or <<f>>: how often parser.parse ran for each rule of the policy
    lastEvaluate,  \* <<>> or <<r>>: the rule and the outcome of the last evaluate call
    roundArgs,     \* the policy handed to to_dict / from_dict, wrapped
    roundResult,   \* the dict and the policy rebuilt from it, once computed
    validateArgs,  \* validate_dataset's arguments and the validator's flag
    expIdx,        \* position of the loop over the expectations
    expPc,         \* where validate_dataset is: loop, returned or raised
    reportResults, \* the results list of validate_dataset
    expSrc,        \* for each result, the position of its expectation
    driftReport    \* the DriftReport object, wrapped

vars == <<store, policy_cache, policyArg, readable, pc, resolved, idx, violations,
          results, raised, datasetRead, evaluated, outcomes, vsrc, exitArgs, exitCode,
          applyArgs, processExit, rule_defs, evalArgs, evalResult, statArgs, statResult,
          parseArgs, tokenizeResult, parseResult, buildArgs, buildResult,
          contextNow, statsNow, parseCalls, lastEvaluate, roundArgs, roundResult,
          validateArgs, expIdx, expPc, reportResults, expSrc, driftReport>>

auditVars == <<store, policy_cache, policyArg, readable, pc, resolved, idx, violations,
               results, raised, datasetRead, evaluated, outcomes, vsrc>>

exitVars == <<exitArgs, exitCode, applyArgs, processExit>>

evalVars == <<evalArgs, evalResult, statArgs, statResult, contextNow, statsNow>>

parseVars == <<parseArgs, tokenizeResult, parseResult, buildArgs, buildResult>>

evaluateVars == <<parseCalls, lastEvaluate>>

roundTripVars == <<roundArgs, roundResult>>

expectationVars == <<validateArgs, expIdx, expPc, reportResults, expSrc>>

driftVars == <<driftReport>>

\* the variables that run_audit does not touch
nonAuditVars == <<exitVars, rule_defs, evalVars, parseVars, evaluateVars, roundTripVars,
                  expectationVars, driftVars>>

\* the variables that tokenize, parse and build_ast do not touch
nonParseVars == <<auditVars, exitVars, rule_defs, evalVars, evaluateVars, roundTripVars,
                  expectationVars, driftVars>>

\* the variables that evaluate_ast and the statistic functions do not touch
nonEvalVars == <<auditVars, exitVars, rule_defs, parseVars, evaluateVars, roundTripVars,
                 expectationVars, driftVars>>

\* the variables that neither loop over rules touches
nonLoopVars == <<exitVars, evalVars, parseVars, evaluateVars, roundTripVars,
                 expectationVars, driftVars>>

\* the variables that to_dict and from_dict do not touch
nonRoundTripVars == <<auditVars, exitVars, rule_defs, evalVars, parseVars, evaluateVars,
                      expectationVars, driftVars>>

\* the variables that validate_dataset does not touch
nonExpectationVars == <<auditVars, exitVars, rule_defs, evalVars, parseVars,
                        evaluateVars, roundTripVars, driftVars>>

\* the variables that a DriftReport does not touch
nonDriftVars == <<auditVars, exitVars, rule_defs, evalVars, parseVars, evaluateVars,
                  roundTripVars, expectationVars>>

\* the variables that get_exit_code and apply_exit_logic do not touch
nonExitVars == <<auditVars, rule_defs, evalVars, parseVars, evaluateVars, roundTripVars,
                 expectationVars, driftVars>>

---------------------------------------------------------------------------
(* Bounds of the model *)

\* longest rule list of a policy handed to run_audit as an object
MaxRules == 2

\* depth at which the interpreter stops a recursion (sys.getrecursionlimit,
\* scaled down); every acyclic extends chain of the model is shorter
RecursionLimit == 4

---------------------------------------------------------------------------
(* Enumerations *)

\* Severity members by value
Severity == {"info", "warning", "error", "fatal"}

\* EnforcementMode members by value
EnforcementMode == {"enforce", "dry_run"}

ENFORCE == "enforce"

DRY_RUN == "dry_run"

None == "None"

\* dict.get(key, default)
Get(d, key, default) == IF key \in DOMAIN d THEN d[key] ELSE default

\* d[key] = value on a dict: the key is added or overwritten
SetItem(d, key, value) == [k \in (DOMAIN d) \cup {key} |-> IF k = key THEN value ELSE d[k]]

Range(s) == {s[i] : i \in 1..Len(s)}

\* Python values that a rule expression can produce, tagged by type
PyNone == [t |-> "none"]

PyBool(b) == [t |-> "bool", v |-> b]

PyNum(n) == [t |-> "num", v |-> n]

PyStr(str) == [t |-> "str", v |-> str]

\* bool(x): None, False, 0 and "" are falsy
Truthy(x) ==
    CASE x.t = "none" -> FALSE
      [] x.t = "bool" -> x.v
      [] x.t = "num" -> x.v # 0
      [] x.t = "str" -> x.v # ""

---------------------------------------------------------------------------
(* RuleConfig and AuditPolicy *)

RuleConfig(name, severity, enforcement, fail_fast, exit_code) ==
    [name |-> name, severity |-> severity, enforcement |-> enforcement,
     fail_fast |-> fail_fast, exit_code |-> exit_code]

\* the exit-code table every AuditPolicy starts with
DefaultExitCodes ==
    [success |-> 0, warning |-> 1, error |-> 2, fatal |-> 3,
     rule_failure |-> 4, system_error |-> 5, fail_fast |-> 2]

AuditPolicy(name, rules, default_enforcement, enable_fail_fast, extends) ==
    [name |-> name, rules |-> rules, default_enforcement |-> default_enforcement,
     enable_fail_fast |-> enable_fail_fast, default_exit_codes |-> DefaultExitCodes,
     extends |-> extends]

RuleNames(rules) == [i \in 1..Len(rules) |-> rules[i].name]

UniqueNames(rules) ==
    \A i, j \in 1..Len(rules) : rules[i].name = rules[j].name => i = j

HasRule(rules, name) == \E i \in 1..Len(rules) : rules[i].name = name

\* next((r for r in rules if r.name == name), None)
FirstRule(rules, name) ==
    IF HasRule(rules, name)
    THEN <<rules[CHOOSE i \in 1..Len(rules) :
                    /\ rules[i].name = name
                    /\ \A j \in 1..(i - 1) : rules[j].name # name]>>
    ELSE <<>>

---------------------------------------------------------------------------
(* Policy resolution: AuditPolicyManager *)

\* base.merge(child): the child's scalar fields override the parent's; the rule
\* list is the parent's rules, a child rule of the same name replacing the
\* parent's in place, followed by the child's rules of new names
merge(base, child) ==
    [name |-> child.name,
     rules |->
        [i \in 1..Len(base.rules) |->
            IF HasRule(child.rules, base.rules[i].name)
            THEN FirstRule(child.rules, base.rules[i].name)[1]
            ELSE base.rules[i]]
        \o SelectSeq(child.rules, LAMBDA r : ~HasRule(base.rules, r.name)),
     default_enforcement |-> child.default_enforcement,
     enable_fail_fast |-> child.enable_fail_fast,
     default_exit_codes |-> child.default_exit_codes,
     extends |-> child.extends]

\* policy.get_effective_policy(environment, dataset): an AuditPolicy has no
\* field that holds an environment or dataset overlay, so none is applied
get_effective_policy(policy) == policy

\* the result of a call that may raise: status is "ok" or the exception's name
Returned(policy, cache) == [status |-> "ok", policy |-> <<policy>>, cache |-> cache]

Raised(exception, cache) == [status |-> exception, policy |-> <<>>, cache |-> cache]

find_policy_by_name_default(cache, files, policy_name) ==
    IF policy_name \in DOMAIN cache
    THEN Returned(cache[policy_name], cache)
    ELSE IF policy_name \in DOMAIN files
         THEN Returned(files[policy_name], SetItem(cache, policy_name, files[policy_name]))
         ELSE Returned(AuditPolicy(policy_name, <<>>, ENFORCE, TRUE, None), cache)

\* AuditPolicyManager._find_policy_by_name: the cached policy if there is one,
\* else the first file found (which is cached), else ValueError
find_policy_by_name(cache, files, policy_name) ==
    IF policy_name \in DOMAIN cache
    THEN Returned(cache[policy_name], cache)
    ELSE IF policy_name \in DOMAIN files
         THEN Returned(files[policy_name], SetItem(cache, policy_name, files[policy_name]))
         ELSE Raised("ValueError", cache)

ResolveInheritance_swapped(base_policy, policy) == merge(policy, base_policy)

\* policy = base_policy.merge(policy)
ResolveInheritance(base_policy, policy) == merge(base_policy, policy)

RECURSIVE get_policy(_, _, _, _)
\* AuditPolicyManager.get_policy, called at recursion depth `depth`; a call
\* deeper than RecursionLimit raises RecursionError
get_policy(cache, files, policy_name, depth) ==
    IF depth > RecursionLimit
    THEN Raised("RecursionError", cache)
    ELSE LET found == find_policy_by_name(cache, files, policy_name) IN
         IF found.status # "ok"
         THEN found
         ELSE LET policy == found.policy[1] IN
              IF policy.extends # None
              THEN LET base == get_policy(found.cache, files, policy.extends, depth + 1) IN
                   IF base.status # "ok"
                   THEN base
                   ELSE Returned(get_effective_policy(
                                     ResolveInheritance(base.policy[1], policy)),
                                 base.cache)
              ELSE Returned(get_effective_policy(policy), found.cache)

---------------------------------------------------------------------------
(* Exit codes: AuditPolicy.get_exit_code *)

\* severity_map.get(violation_severity, "error"): the table key of a severity
ExitKey(violation_severity) ==
    CASE violation_severity = "info" -> "success"
      [] violation_severity = "warning" -> "warning"
      [] violation_severity = "error" -> "error"
      [] violation_severity = "fatal" -> "fatal"
      [] OTHER -> "error"

get_exit_code_fail_fast_first(default_exit_codes, violation_severity, fail_fast, custom_exit_code) ==
    IF fail_fast
    THEN Get(default_exit_codes, "fail_fast", 2)
    ELSE IF custom_exit_code # <<>>
         THEN custom_exit_code[1]
         ELSE Get(default_exit_codes, ExitKey(violation_severity), 2)

\* AuditPolicy.get_exit_code(violation_severity, fail_fast, custom_exit_code)
get_exit_code(default_exit_codes, violation_severity, fail_fast, custom_exit_code) ==
    IF custom_exit_code # <<>>
    THEN custom_exit_code[1]
    ELSE IF fail_fast
         THEN Get(default_exit_codes, "fail_fast", 2)
         ELSE Get(default_exit_codes, ExitKey(violation_severity), 2)

---------------------------------------------------------------------------
(* DatasetValidator.validate and AuditRunner.run_audit *)

\* the entry validate appends for a rule that did not pass
Violation(rule) ==
    [rule |-> rule.name, severity |-> rule.severity, message |-> "Rule failed"]

AppendViolation_front(vs, v) == <<v>> \o vs

\* violations.append({...})
AppendViolation(vs, v) == Append(vs, v)

\* the dict validate returns when the dataset cannot be read
ReadFailure ==
    [success |-> FALSE, error |-> "Failed to read dataset", violations |-> <<>>]

ValidateResult_terminated(vs) ==
    [success |-> TRUE, violations |-> vs, num_violations |-> Len(vs),
     dataset |-> "dataset_path", terminated_early |-> vs # <<>>]

\* the dict validate returns after the loop over the rules
ValidateResult(vs) ==
    [success |-> TRUE, violations |-> vs, num_violations |-> Len(vs),
     dataset |-> "dataset_path"]

\* run_audit's loop body over one violation: the two flags are stored only
\* when the rule is found and is not in ENFORCE mode
MarkViolation(violation, policy) ==
    LET rule == FirstRule(policy.rules, violation.rule) IN
    IF rule # <<>> /\ rule[1].enforcement # ENFORCE
    THEN SetItem(SetItem(violation, "enforced", FALSE), "dry_run", TRUE)
    ELSE violation

\* run_audit after validate has returned: results['dry_run'] is set and the
\* violations are marked
MarkResults(res, policy) ==
    LET withFlag == SetItem(res, "dry_run", policy.default_enforcement # ENFORCE) IN
    SetItem(withFlag, "violations",
            [k \in 1..Len(res.violations) |-> MarkViolation(res.violations[k], policy)])

\* AuditRunner.should_fail(results, policy)
should_fail(res, policy) ==
    IF policy.default_enforcement # ENFORCE
    THEN FALSE
    ELSE \E k \in 1..Len(res.violations) :
            LET rule == FirstRule(policy.rules, res.violations[k].rule) IN
            /\ ~(rule # <<>> /\ rule[1].enforcement # ENFORCE)
            /\ res.violations[k].severity \in {"error", "fatal"}

\* the outcomes of rule.evaluate(df): result.passed true, result.passed false,
\* or an evaluator error raised by the call
EvalOutcomes == {"pass", "fail", "raise"}

\* run_audit, first statement: a str policy is resolved by the policy manager,
\* an AuditPolicy instance is used as it is; an exception of get_policy leaves
\* run_audit at once
ResolvePolicy ==
    /\ pc = "start"
    /\ IF policyArg[1] = "name"
       THEN LET r == get_policy(policy_cache, store, policyArg[2], 1) IN
            /\ policy_cache' = r.cache
            /\ IF r.status = "ok"
               THEN resolved' = r.policy /\ pc' = "read" /\ raised' = raised
               ELSE resolved' = resolved /\ pc' = "raised" /\ raised' = r.status
       ELSE /\ resolved' = <<policyArg[2]>>
            /\ pc' = "read"
            /\ UNCHANGED <<policy_cache, raised>>
    /\ UNCHANGED <<store, policyArg, readable, idx, violations, results, datasetRead,
                   evaluated, outcomes, vsrc>>
    /\ UNCHANGED nonAuditVars

\* validate, the try block: pd.read_csv either yields the frame or validate
\* returns the failure dict without looking at any rule
ReadDataset ==
    /\ pc = "read"
    /\ datasetRead' = TRUE
    /\ IF readable
       THEN pc' = "rules" /\ idx' = 1 /\ violations' = <<>> /\ results' = results
       ELSE pc' = "finish" /\ results' = <<ReadFailure>> /\ UNCHANGED <<idx, violations>>
    /\ UNCHANGED <<store, policy_cache, policyArg, readable, resolved, raised,
                   evaluated, outcomes, vsrc>>
    /\ UNCHANGED nonAuditVars

\* validate, one iteration of `for rule in self.policy.rules`
EvaluateRule ==
    /\ pc = "rules"
    /\ idx <= Len(resolved[1].rules)
    /\ \E outcome \in EvalOutcomes :
        /\ evaluated' = Append(evaluated, idx)
        /\ outcomes' = Append(outcomes, outcome)
        /\ CASE outcome = "pass" ->
                  /\ idx' = idx + 1
                  /\ UNCHANGED <<pc, violations, vsrc, raised>>
             [] outcome = "fail" ->
                  /\ violations' = AppendViolation(violations, Violation(resolved[1].rules[idx]))
                  /\ vsrc' = Append(vsrc, idx)
                  /\ idx' = idx + 1
                  /\ UNCHANGED <<pc, raised>>
             [] outcome = "raise" ->
                  /\ pc' = "raised"
                  /\ raised' = "RuleEvaluationError"
                  /\ UNCHANGED <<idx, violations, vsrc>>
    /\ UNCHANGED <<store, policy_cache, policyArg, readable, resolved, results, datasetRead>>
    /\ UNCHANGED nonAuditVars

\* validate, the return after the loop
ValidateReturn ==
    /\ pc = "rules"
    /\ idx > Len(resolved[1].rules)
    /\ results' = <<ValidateResult(violations)>>
    /\ pc' = "finish"
    /\ UNCHANGED <<store, policy_cache, policyArg, readable, resolved, idx, violations,
                   raised, datasetRead, evaluated, outcomes, vsrc>>
    /\ UNCHANGED nonAuditVars

\* run_audit from `results['dry_run'] = ...` to `return results` (no output file)
FinishAudit ==
    /\ pc = "finish"
    /\ results' = <<MarkResults(results[1], resolved[1])>>
    /\ pc' = "done"
    /\ UNCHANGED <<store, policy_cache, policyArg, readable, resolved, idx, violations,
                   raised, datasetRead, evaluated, outcomes, vsrc>>
    /\ UNCHANGED nonAuditVars

---------------------------------------------------------------------------
(* Inputs of run_audit *)

\* rule names by position; names are unique within a policy
RuleName(i) == <<"critical", "normal", "extra", "spare">>[i]

RuleShapes == [severity : Severity, enforcement : EnforcementMode, fail_fast : BOOLEAN]

RuleLists ==
    UNION {{[i \in 1..n |-> RuleConfig(RuleName(i), f[i].severity, f[i].enforcement,
                                       f[i].fail_fast, <<>>)] :
                f \in [1..n -> RuleShapes]} : n \in 0..MaxRules}

\* policies handed to run_audit as AuditPolicy instances
ObjectPolicies ==
    {AuditPolicy("policy", rules, de, eff, None) :
        rules \in RuleLists, de \in EnforcementMode, eff \in BOOLEAN}

\* names a policy file may carry; "P3" is never a file
PolicyNames == {"P1", "P2"}

RequestedNames == {"P1", "P2", "P3"}

RuleA(severity) == RuleConfig("A", severity, ENFORCE, FALSE, <<>>)

RuleB == RuleConfig("B", "warning", ENFORCE, FALSE, <<>>)

\* rule lists of the policy files
FileRuleLists ==
    {<<>>, <<RuleB>>}
    \cup {<<RuleA(s)>> : s \in {"warning", "error"}}
    \cup {<<RuleA(s), RuleB>> : s \in {"warning", "error"}}
    \cup {<<RuleB, RuleA(s)>> : s \in {"warning", "error"}}

FilePolicies(name) ==
    {AuditPolicy(name, rules, ENFORCE, TRUE, ext) :
        rules \in FileRuleLists, ext \in RequestedNames \cup {None}}

\* the sets of policy files: each name is absent or holds one policy
Stores ==
    UNION {{f \in [S -> UNION {FilePolicies(n) : n \in S}] :
                \A n \in S : f[n].name = n} : S \in SUBSET PolicyNames}

IdleExit ==
    /\ exitArgs = <<>>
    /\ exitCode = <<>>
    /\ applyArgs = <<>>
    /\ processExit = <<>>

IdleEvaluate ==
    /\ parseCalls = <<>>
    /\ lastEvaluate = <<>>

IdleRoundTrip ==
    /\ roundArgs = <<>>
    /\ roundResult = <<>>

IdleExpectation ==
    /\ validateArgs = <<>>
    /\ expIdx = <<>>
    /\ expPc = <<>>
    /\ reportResults = <<>>
    /\ expSrc = <<>>

IdleDrift ==
    /\ driftReport = <<>>

IdleEngine == rule_defs = <<>>

IdleEval ==
    /\ evalArgs = <<>>
    /\ evalResult = <<>>
    /\ statArgs = <<>>
    /\ statResult = <<>>
    /\ contextNow = <<>>
    /\ statsNow = <<>>

IdleParse ==
    /\ parseArgs = <<>>
    /\ tokenizeResult = <<>>
    /\ parseResult = <<>>
    /\ buildArgs = <<>>
    /\ buildResult = <<>>

Init ==
    /\ IdleDrift
    /\ IdleExpectation
    /\ IdleRoundTrip
    /\ IdleEvaluate
    /\ IdleExit
    /\ IdleEngine
    /\ IdleEval
    /\ IdleParse
    /\ \/ /\ policyArg \in {<<"object", p>> : p \in ObjectPolicies}
          /\ store = <<>>
       \/ /\ policyArg \in {<<"name", n>> : n \in RequestedNames}
          /\ store \in Stores
    /\ policy_cache = <<>>
    /\ readable \in BOOLEAN
    /\ pc = "start"
    /\ resolved = <<>>
    /\ idx = 0
    /\ violations = <<>>
    /\ results = <<>>
    /\ raised = None
    /\ datasetRead = FALSE
    /\ evaluated = <<>>
    /\ outcomes = <<>>
    /\ vsrc = <<>>

Next ==
    \/ ResolvePolicy
    \/ ReadDataset
    \/ EvaluateRule
    \/ ValidateReturn
    \/ FinishAudit

Spec == Init /\ [][Next]_vars

---------------------------------------------------------------------------
(* validate_dataset_against_rules: the rule engine's loop *)

\* what evaluator.evaluate(rule_str, summary) can do: return a value or raise
EngineOutcomes ==
    {[status |-> "ok", value |-> PyBool(TRUE)],
     [status |-> "ok", value |-> PyBool(FALSE)],
     [status |-> "ok", value |-> PyNone],
     [status |-> "raised", value |-> PyNone]}

RuleFails_only_false(outcome) == outcome.status = "ok" /\ outcome.value = PyBool(FALSE)

\* `if not evaluator.evaluate(rule_str, summary)`
RuleFails(outcome) == outcome.status = "ok" /\ ~Truthy(outcome.value)

\* the entry appended for a rule whose condition is falsy
EngineViolation(rule_obj) ==
    [rule |-> rule_obj.rule, severity |-> Get(rule_obj, "severity", "error"),
     message |-> "Rule failed"]

\* the entry appended by the except branch
EngineErrorViolation(rule_obj) ==
    [rule |-> rule_obj.rule, severity |-> "fatal", message |-> "Rule evaluation error"]

\* one iteration of `for rule_obj in rule_defs.get("rules", [])`
EngineEvaluateRule ==
    /\ pc = "engine"
    /\ idx <= Len(rule_defs)
    /\ \E outcome \in EngineOutcomes :
        /\ evaluated' = Append(evaluated, idx)
        /\ outcomes' = Append(outcomes, outcome)
        /\ IF outcome.status # "ok"
           THEN /\ violations' = Append(violations, EngineErrorViolation(rule_defs[idx]))
                /\ vsrc' = Append(vsrc, idx)
           ELSE IF RuleFails(outcome)
                THEN /\ violations' = Append(violations, EngineViolation(rule_defs[idx]))
                     /\ vsrc' = Append(vsrc, idx)
                ELSE UNCHANGED <<violations, vsrc>>
    /\ idx' = idx + 1
    /\ UNCHANGED <<store, policy_cache, policyArg, readable, pc, resolved, results,
                   raised, datasetRead, rule_defs>>
    /\ UNCHANGED nonLoopVars

Passed_ignoring_warnings(vs) ==
    \A k \in 1..Len(vs) : vs[k].severity \in {"info", "warning"}

\* `passed = len(violations) == 0`
Passed(vs) == Len(vs) = 0

\* `return passed, violations`
EngineReturn ==
    /\ pc = "engine"
    /\ idx > Len(rule_defs)
    /\ results' = <<[passed |-> Passed(violations), violations |-> violations]>>
    /\ pc' = "engine_done"
    /\ UNCHANGED <<store, policy_cache, policyArg, readable, resolved, idx, violations,
                   raised, datasetRead, evaluated, outcomes, vsrc, rule_defs>>
    /\ UNCHANGED nonLoopVars

\* rule strings by position
RuleString(i) == <<"mean(age) < 10", "std(age) > 1", "mode(city) == 'x'", "unique_count(id) > 0">>[i]

\* a rule object has a rule string and may have a severity
RuleObjects(i) ==
    {[rule |-> RuleString(i)]}
    \cup {[rule |-> RuleString(i), severity |-> sev] : sev \in {"info", "warning", "error"}}

\* the rule lists of a rule file
EngineRuleDefs ==
    UNION {{f \in [1..n -> UNION {RuleObjects(i) : i \in 1..n}] :
                \A i \in 1..n : f[i] \in RuleObjects(i)} : n \in 0..MaxRules}

InitEngine ==
    /\ IdleDrift
    /\ IdleExpectation
    /\ IdleRoundTrip
    /\ IdleEvaluate
    /\ IdleExit
    /\ IdleEval
    /\ IdleParse
    /\ rule_defs \in EngineRuleDefs
    /\ store = <<>>
    /\ policy_cache = <<>>
    /\ policyArg = <<>>
    /\ readable = TRUE
    /\ pc = "engine"
    /\ resolved = <<>>
    /\ idx = 1
    /\ violations = <<>>
    /\ results = <<>>
    /\ raised = None
    /\ datasetRead = FALSE
    /\ evaluated = <<>>
    /\ outcomes = <<>>
    /\ vsrc = <<>>

NextEngine == EngineEvaluateRule \/ EngineReturn

SpecEngine == InitEngine /\ [][NextEngine]_vars

\* both loops over rules: validate under run_audit and the rule engine's
SpecLoops == (Init \/ InitEngine) /\ [][Next \/ NextEngine]_vars

---------------------------------------------------------------------------
(* get_exit_code applied to bounded arguments *)

\* a table whose entries all differ from the defaults
CustomExitCodes ==
    [success |-> 0, warning |-> 10, error |-> 20, fatal |-> 30,
     rule_failure |-> 40, system_error |-> 50, fail_fast |-> 60]

\* a table built without the fatal and fail_fast entries
PartialExitCodes == [success |-> 0, warning |-> 11, error |-> 21]

ExitTables == {DefaultExitCodes, CustomExitCodes, PartialExitCodes}

\* the Severity members and one value that is no member
SeverityArgs == Severity \cup {"critical"}

ExitArgs ==
    [default_exit_codes : ExitTables, violation_severity : SeverityArgs,
     fail_fast : BOOLEAN, custom_exit_code : {<<>>, <<0>>, <<7>>}]

IdleAudit ==
    /\ store = <<>>
    /\ policy_cache = <<>>
    /\ policyArg = <<>>
    /\ readable = FALSE
    /\ pc = "idle"
    /\ resolved = <<>>
    /\ idx = 0
    /\ violations = <<>>
    /\ results = <<>>
    /\ raised = None
    /\ datasetRead = FALSE
    /\ evaluated = <<>>
    /\ outcomes = <<>>
    /\ vsrc = <<>>

\* the audit_results dicts handed to apply_exit_logic: the keys failed and
\* exit_code are each present or not, and the dict validate returns for a
\* dataset it could not read (it has success, no failed)
ApplyArgs ==
    {[failed |-> f, exit_code |-> c] : f \in BOOLEAN, c \in {0, 2, 3}}
    \cup {[failed |-> f] : f \in BOOLEAN}
    \cup {[exit_code |-> c] : c \in {0, 2, 3}}
    \cup {ReadFailure}

InitExit ==
    /\ IdleDrift
    /\ IdleExpectation
    /\ IdleRoundTrip
    /\ IdleEvaluate
    /\ IdleAudit
    /\ IdleEngine
    /\ IdleEval
    /\ IdleParse
    /\ exitCode = <<>>
    /\ processExit = <<>>
    /\ \/ exitArgs \in {<<a>> : a \in ExitArgs} /\ applyArgs = <<>>
       \/ applyArgs \in {<<a>> : a \in ApplyArgs} /\ exitArgs = <<>>

CallGetExitCode ==
    /\ exitArgs # <<>>
    /\ exitCode = <<>>
    /\ exitCode' = <<get_exit_code(exitArgs[1].default_exit_codes,
                                   exitArgs[1].violation_severity,
                                   exitArgs[1].fail_fast,
                                   exitArgs[1].custom_exit_code)>>
    /\ UNCHANGED <<exitArgs, applyArgs, processExit>>
    /\ UNCHANGED nonExitVars

\* what apply_exit_logic does with audit_results: exit(code) or plain return
apply_exit_logic(audit_results) ==
    IF Get(audit_results, "failed", FALSE)
    THEN [kind |-> "exit", code |-> Get(audit_results, "exit_code", 2)]
    ELSE [kind |-> "return"]

\* a call of apply_exit_logic(audit_results, policy)
CallApplyExitLogic ==
    /\ applyArgs # <<>>
    /\ processExit = <<>>
    /\ processExit' = <<apply_exit_logic(applyArgs[1])>>
    /\ UNCHANGED <<exitArgs, exitCode, applyArgs>>
    /\ UNCHANGED nonExitVars

NextExit == CallGetExitCode \/ CallApplyExitLogic

SpecExit == InitExit /\ [][NextExit]_vars

---------------------------------------------------------------------------
(* Properties of run_audit *)

\* the run returned a dict built from a dataset that could be read
Returned_ok == pc = "done" /\ readable

\* the rule of the k-th violation recorded by validate
ViolatedRule(k) == resolved[1].rules[vsrc[k]]

\* rule i fails under enforcement with fail_fast set while the policy enables fail-fast
FailFastTrigger(i) ==
    /\ resolved[1].enable_fail_fast
    /\ resolved[1].rules[i].fail_fast
    /\ resolved[1].rules[i].enforcement = ENFORCE
    /\ \E k \in 1..Len(vsrc) : vsrc[k] = i

\* C1: when an enforced rule with fail_fast set is violated under a policy with
\* enable_fail_fast, the result has terminated_early = true, termination_rule =
\* that rule's name, and no rule declared after it was evaluated or recorded.
C1_FailFastStopsEvaluation ==
    Returned_ok =>
        \A i \in 1..Len(resolved[1].rules) :
            FailFastTrigger(i) =>
                /\ Get(results[1], "terminated_early", FALSE) = TRUE
                /\ Get(results[1], "termination_rule", None) = resolved[1].rules[i].name
                /\ \A k \in 1..Len(evaluated) : evaluated[k] <= i
                /\ \A k \in 1..Len(vsrc) : vsrc[k] <= i

\* C2: under a policy with default_enforcement = DRY_RUN the returned result has
\* dry_run = true, success = true and exit_code = 0, whatever was violated.
C2_DryRunPolicyNeverFails ==
    (Returned_ok /\ resolved[1].default_enforcement = DRY_RUN /\ violations # <<>>) =>
        /\ results[1].dry_run = TRUE
        /\ results[1].success = TRUE
        /\ "exit_code" \in DOMAIN results[1]
        /\ results[1].exit_code = 0

\* C3: rules are evaluated one at a time in the order of the policy's rule list
\* (the k-th evaluation is of rule k), and the violations are in that order:
\* each recorded violation names its rule and the rules of the violations are
\* in strictly increasing position, in the list under construction and in the
\* returned result.
C3_RulesEvaluatedInDeclaredOrder ==
    /\ \A k \in 1..Len(evaluated) : evaluated[k] = k
    /\ pc = "rules" => idx = Len(evaluated) + 1
    /\ Len(vsrc) = Len(violations)
    /\ \A k \in 1..Len(vsrc) : violations[k].rule = ViolatedRule(k).name
    /\ \A j, k \in 1..Len(vsrc) : j < k => vsrc[j] < vsrc[k]
    /\ Returned_ok =>
          /\ Len(results[1].violations) = Len(vsrc)
          /\ \A k \in 1..Len(vsrc) : results[1].violations[k].rule = ViolatedRule(k).name

C3_Witness ==
    /\ Returned_ok
    /\ Len(results[1].violations) >= 2
    /\ outcomes = <<"fail", "fail">>

\* some enforced violation of the run has severity ERROR or FATAL
EnforcedFailure ==
    \E k \in 1..Len(vsrc) :
        /\ ViolatedRule(k).enforcement = ENFORCE
        /\ ViolatedRule(k).severity \in {"error", "fatal"}

\* C4: success is true exactly when the run is dry-run (default_enforcement #
\* ENFORCE) or no enforced violation has severity ERROR or FATAL.
C4_SuccessReflectsEnforcedFailures ==
    Returned_ok =>
        (results[1].success = TRUE <=>
            (resolved[1].default_enforcement # ENFORCE \/ ~EnforcedFailure))

\* C6: an error raised while evaluating a rule never leaves the run; it is
\* recorded as a FATAL violation of that rule and the later rules are evaluated.
C6_RuleErrorsBecomeFatalViolations ==
    /\ raised # "RuleEvaluationError"
    /\ \A k \in 1..Len(outcomes) :
          outcomes[k] = "raise" =>
              \E j \in 1..Len(vsrc) : vsrc[j] = evaluated[k] /\ violations[j].severity = "fatal"
    /\ Returned_ok => Len(evaluated) = Len(resolved[1].rules)

\* C10: every violation of the result carries both flags, enforced = (its
\* rule's enforcement == ENFORCE) and dry_run = not enforced.
C10_ViolationsCarryBothFlags ==
    Returned_ok =>
        \A k \in 1..Len(results[1].violations) :
            LET v == results[1].violations[k] IN
            /\ "enforced" \in DOMAIN v
            /\ "dry_run" \in DOMAIN v
            /\ v.enforced = (ViolatedRule(k).enforcement = ENFORCE)
            /\ v.dry_run = ~v.enforced

---------------------------------------------------------------------------
(* Properties of policy resolution *)

\* the policy a name extends, "None" when the name is no file or extends nothing
Parent(files, n) == IF n \in DOMAIN files THEN files[n].extends ELSE None

RECURSIVE Hop(_, _, _)
\* the name reached from n by following extends k times
Hop(files, n, k) == IF k = 0 THEN n ELSE Parent(files, Hop(files, n, k - 1))

\* the extends chain of n never ends: after as many hops as there are files it
\* is still at a file, so some policy of the chain is its own ancestor
Cyclic(files, n) == Hop(files, n, Cardinality(DOMAIN files)) \in DOMAIN files

\* the extends chain of n reaches a name that is no file
NotFound(files, n) ==
    \E k \in 0..Cardinality(DOMAIN files) :
        Hop(files, n, k) # None /\ Hop(files, n, k) \notin DOMAIN files

ByName == policyArg # <<>> /\ policyArg[1] = "name"

\* C7: get_policy ends on every policy set: with a policy that is its own
\* ancestor it raises CyclicPolicyError, and for every acyclic chain of
\* existing policies it returns an effective policy.
C7_CyclicExtendsRaisesCyclicPolicyError ==
    (ByName /\ pc # "start") =>
        /\ Cyclic(store, policyArg[2]) => (pc = "raised" /\ raised = "CyclicPolicyError")
        /\ (~Cyclic(store, policyArg[2]) /\ ~NotFound(store, policyArg[2])) =>
              (resolved # <<>> /\ raised # "RecursionError")

\* the child named by the request extends a parent that extends nothing
ExtendsRoot ==
    /\ ByName
    /\ policyArg[2] \in DOMAIN store
    /\ store[policyArg[2]].extends \in DOMAIN store
    /\ store[store[policyArg[2]].extends].extends = None

\* C8: resolving a child that extends a parent yields the parent's rules, each
\* replaced at its position by the child's rule of the same name if there is
\* one, followed by the child's rules of new names in the child's order; no
\* resolved rule list holds two rules of one name.
C8_MergeReplacesInPlaceAndAppends ==
    /\ (ByName /\ resolved # <<>>) => UniqueNames(resolved[1].rules)
    /\ (ExtendsRoot /\ resolved # <<>>) =>
          LET child == store[policyArg[2]].rules
              parent == store[store[policyArg[2]].extends].rules
              merged == resolved[1].rules
              np == Len(parent)
          IN  /\ Len(merged) >= np
              /\ \A i \in 1..np :
                    /\ merged[i].name = parent[i].name
                    /\ \A j \in 1..Len(child) :
                          child[j].name = parent[i].name => merged[i] = child[j]
                    /\ (\A j \in 1..Len(child) : child[j].name # parent[i].name)
                          => merged[i] = parent[i]
              /\ SubSeq(merged, np + 1, Len(merged))
                    = SelectSeq(child, LAMBDA r : \A i \in 1..np : parent[i].name # r.name)

\* parent [A(warning)], child [A(error), B(warning)] resolve to [A(error), B(warning)]
C8_Witness ==
    /\ policyArg = <<"name", "P2">>
    /\ store = [n \in {"P1", "P2"} |->
                  IF n = "P1"
                  THEN AuditPolicy("P1", <<RuleA("warning")>>, ENFORCE, TRUE, None)
                  ELSE AuditPolicy("P2", <<RuleA("error"), RuleB>>, ENFORCE, TRUE, "P1")]
    /\ pc = "done"
    /\ resolved[1].rules = <<RuleA("error"), RuleB>>

\* C9: given a policy name whose resolution fails (a name of the chain is no
\* file, or the chain is cyclic), run_audit ends with the exception of
\* get_policy before the dataset is read and before any rule is evaluated: no
\* violation is recorded and no result is returned.
C9_ResolutionFailureAbortsBeforeValidation ==
    /\ (ByName /\ (Cyclic(store, policyArg[2]) \/ NotFound(store, policyArg[2]))) =>
          /\ pc \in {"start", "raised"}
          /\ pc = "raised" => raised \in {"ValueError", "RecursionError"}
    /\ (pc = "raised" /\ raised \in {"ValueError", "RecursionError"}) =>
          /\ ~datasetRead
          /\ evaluated = <<>>
          /\ violations = <<>>
          /\ results = <<>>
          /\ resolved = <<>>

C9_Witness ==
    /\ ByName
    /\ policyArg[2] \in DOMAIN store
    /\ NotFound(store, policyArg[2])
    /\ pc = "raised"
    /\ raised = "ValueError"
    /\ ~datasetRead

---------------------------------------------------------------------------
(* Properties of get_exit_code *)

\* the call has returned
ExitReturned == exitArgs # <<>> /\ exitCode # <<>>

\* C5 as stated: the explicit code first, then the fail_fast entry, then the
\* entry keyed by the severity, and the success entry only when there was no
\* unsuppressed violation; every call resolves the code of a violation, so a
\* call that reaches the severity table never returns the success code (in
\* every table of ExitTables the success code differs from the other codes).
C5_SuccessCodeOnlyWithoutViolations ==
    ExitReturned =>
        LET a == exitArgs[1] IN
        /\ a.custom_exit_code # <<>> => exitCode[1] = a.custom_exit_code[1]
        /\ (a.custom_exit_code = <<>> /\ ~a.fail_fast) =>
              exitCode[1] # Get(a.default_exit_codes, "success", 2)

\* C5 as amended: the explicit exit_code if there is one; otherwise the
\* fail_fast entry (2 if the table has none) when fail_fast is set; otherwise
\* the table entry keyed by the severity (2 if the table has none), where INFO
\* is keyed to the success entry, WARN to warning, ERROR to error, FATAL to
\* fatal and any other value to error.
C5_ExitCodePrecedence ==
    ExitReturned =>
        LET a == exitArgs[1]
            t == a.default_exit_codes
            entry(key) == IF key \in DOMAIN t THEN t[key] ELSE 2
        IN  /\ a.custom_exit_code # <<>> => exitCode[1] = a.custom_exit_code[1]
            /\ (a.custom_exit_code = <<>> /\ a.fail_fast) => exitCode[1] = entry("fail_fast")
            /\ (a.custom_exit_code = <<>> /\ ~a.fail_fast) =>
                  /\ a.violation_severity = "info" => exitCode[1] = entry("success")
                  /\ a.violation_severity = "warning" => exitCode[1] = entry("warning")
                  /\ a.violation_severity = "error" => exitCode[1] = entry("error")
                  /\ a.violation_severity = "fatal" => exitCode[1] = entry("fatal")
                  /\ a.violation_severity \notin Severity => exitCode[1] = entry("error")

\* an explicit code wins over fail_fast, and an INFO violation gets the success code
C5_Witness ==
    /\ ExitReturned
    /\ exitArgs[1].custom_exit_code = <<7>>
    /\ exitArgs[1].fail_fast
    /\ exitArgs[1].default_exit_codes = CustomExitCodes
    /\ exitCode = <<7>>

\* apply_exit_logic has ended
ExitApplied == applyArgs # <<>> /\ processExit # <<>>

\* C11: exit code 0 is reserved for success and dry-run: the code resolved for
\* a violation that makes the run fail (severity ERROR or FATAL) is positive,
\* and a failed run handed to apply_exit_logic exits with a positive code.
C11_FailedRunNeverExitsZero ==
    /\ (ExitReturned /\ exitArgs[1].violation_severity \in {"error", "fatal"}) =>
          exitCode[1] > 0
    /\ (ExitApplied /\ Get(applyArgs[1], "failed", FALSE)) =>
          /\ processExit[1].kind = "exit"
          /\ processExit[1].code > 0

---------------------------------------------------------------------------
(* Properties of the loops over rules *)

\* the number of violations recorded for the rule at position i
ViolationsOf(i) == Cardinality({k \in 1..Len(vsrc) : vsrc[k] = i})

\* C12: a rule's condition is a pass predicate: the evaluation of a rule
\* records exactly one violation when the condition evaluated to false or to
\* None and none when it evaluated to true. In the rule engine's loop the value
\* is what evaluator.evaluate returned; in validate it is result.passed.
C12_ConditionIsPassPredicate ==
    /\ Len(vsrc) = Len(violations)
    /\ pc \in {"engine", "engine_done"} =>
          \A k \in 1..Len(evaluated) :
              /\ (outcomes[k].status = "ok" /\ outcomes[k].value \in {PyBool(FALSE), PyNone})
                    => ViolationsOf(evaluated[k]) = 1
              /\ (outcomes[k].status = "ok" /\ outcomes[k].value = PyBool(TRUE))
                    => ViolationsOf(evaluated[k]) = 0
    /\ pc \in {"rules", "finish", "done"} =>
          \A k \in 1..Len(evaluated) :
              /\ outcomes[k] = "fail" => ViolationsOf(evaluated[k]) = 1
              /\ outcomes[k] = "pass" => ViolationsOf(evaluated[k]) = 0

\* an inconclusive (None) condition, a false one and a true one in one run
C12_Witness ==
    /\ pc = "engine_done"
    /\ Len(outcomes) = 2
    /\ outcomes[1].status = "ok" /\ outcomes[1].value = PyNone
    /\ outcomes[2].status = "ok" /\ outcomes[2].value = PyBool(TRUE)
    /\ Len(results[1].violations) = 1
    /\ results[1].violations[1].rule = RuleString(1)

---------------------------------------------------------------------------
(* evaluate_ast: the evaluation of a rule's AST against a profiling context *)

\* the AST node classes of ast_nodes.py
FunctionCall(func_name, field_name) ==
    [type |-> "FunctionCall", func_name |-> func_name, field_name |-> field_name]

Comparison(left, operator, right) ==
    [type |-> "Comparison", left |-> left, operator |-> operator, right |-> right]

LogicalExpression(left, operator, right) ==
    [type |-> "LogicalExpression", left |-> left, operator |-> operator, right |-> right]

Literal(value) == [type |-> "Literal", value |-> value]

\* a Python None where an AST node is expected (the absent operand of NOT)
NoOperand == [type |-> "NoneType"]

\* the keys of function_registry, operator_registry and logical_operators
FunctionRegistry == {"std", "mean", "mode", "missing_rate", "unique_count"}

OperatorRegistry == {"<", ">", "==", "!=", "<=", ">="}

LogicalOperators == {"AND", "OR"}

\* str.upper() on the operator spellings of the model
Upper(str) ==
    CASE str \in {"and", "And", "AND"} -> "AND"
      [] str \in {"or", "Or", "OR"} -> "OR"
      [] str \in {"not", "Not", "NOT"} -> "NOT"
      [] OTHER -> str

\* context.get(field, {}).get(stat): the registry's _std, _mean, _mode,
\* _missing_rate and _unique_count each read the statistic of their own name
RegistryFunction(func_name, context, field) ==
    Get(Get(context, field, <<>>), func_name, PyNone)

\* how an evaluation ends: a value, or an exception; calls lists the registry
\* functions that were called, with the field they were called on, in call
\* order
EvalOk(value, calls) == [status |-> "ok", value |-> value, calls |-> calls]

EvalRaised(exception, calls) == [status |-> exception, value |-> PyNone, calls |-> calls]

\* int and bool are Python's numbers (True is 1, False is 0)
IsNumber(x) == x.t \in {"num", "bool"}

NumOf(x) == IF x.t = "bool" THEN (IF x.v THEN 1 ELSE 0) ELSE x.v

\* the order of the model's strings
StrRank(str) == CASE str = "x" -> 1 [] str = "y" -> 2 [] OTHER -> 0

\* Python's ==
PyEq(l, r) ==
    IF IsNumber(l) /\ IsNumber(r) THEN NumOf(l) = NumOf(r)
    ELSE IF l.t # r.t THEN FALSE
    ELSE IF l.t = "none" THEN TRUE
    ELSE l.v = r.v

Ordered(op, m, n) ==
    CASE op = "<" -> m < n
      [] op = ">" -> m > n
      [] op = "<=" -> m <= n
      [] op = ">=" -> m >= n

\* operator.lt / gt / eq / ne / le / ge applied to two values: == and != accept
\* any two values, the ordering operators raise TypeError unless both sides are
\* numbers or both are strings
ApplyOperator(op, l, r) ==
    IF op = "==" THEN [status |-> "ok", value |-> PyBool(PyEq(l, r))]
    ELSE IF op = "!=" THEN [status |-> "ok", value |-> PyBool(~PyEq(l, r))]
    ELSE IF IsNumber(l) /\ IsNumber(r)
         THEN [status |-> "ok", value |-> PyBool(Ordered(op, NumOf(l), NumOf(r)))]
    ELSE IF l.t = "str" /\ r.t = "str"
         THEN [status |-> "ok", value |-> PyBool(Ordered(op, StrRank(l.v), StrRank(r.v)))]
    ELSE [status |-> "TypeError", value |-> PyNone]

ShortCircuits_never(operator, left_result) == FALSE

\* `left_result and ...` yields left_result when it is falsy, `left_result or ...`
\* when it is truthy: the right operand is then not evaluated
ShortCircuits(operator, left_result) ==
    \/ operator = "AND" /\ ~Truthy(left_result)
    \/ operator = "OR" /\ Truthy(left_result)

RECURSIVE evaluate_ast(_, _)
evaluate_ast(ast, context) ==
    CASE ast.type = "FunctionCall" ->
            IF ast.func_name \notin FunctionRegistry
            THEN EvalRaised("ValueError", <<>>)
            ELSE EvalOk(RegistryFunction(ast.func_name, context, ast.field_name),
                        <<[func |-> ast.func_name, field |-> ast.field_name]>>)
      [] ast.type = "Comparison" ->
            LET left_value == evaluate_ast(ast.left, context)
                right_value == evaluate_ast(ast.right, context)
                calls == left_value.calls \o right_value.calls
                applied == ApplyOperator(ast.operator, left_value.value, right_value.value)
            IN  IF left_value.status # "ok" THEN left_value
                ELSE IF right_value.status # "ok" THEN EvalRaised(right_value.status, calls)
                ELSE IF ast.operator \notin OperatorRegistry
                     THEN EvalRaised("ValueError", calls)
                ELSE IF applied.status # "ok" THEN EvalRaised(applied.status, calls)
                ELSE EvalOk(applied.value, calls)
      [] ast.type = "LogicalExpression" ->
            LET operator == Upper(ast.operator)
                left_result == evaluate_ast(ast.left, context)
                right_result == evaluate_ast(ast.right, context)
                calls == left_result.calls \o right_result.calls
            IN  IF operator \notin LogicalOperators THEN EvalRaised("ValueError", <<>>)
                ELSE IF left_result.status # "ok" THEN left_result
                ELSE IF ShortCircuits(operator, left_result.value) THEN left_result
                ELSE IF right_result.status # "ok" THEN EvalRaised(right_result.status, calls)
                ELSE EvalOk(right_result.value, calls)
      [] ast.type = "Literal" -> EvalOk(ast.value, <<>>)
      [] OTHER -> EvalRaised("TypeError", <<>>)

\* StatisticsCache.get(dataset_id, column, stat_name): None unless stored
StatisticsCache_get(stats, dataset_id, column, stat_name) ==
    Get(Get(Get(stats, dataset_id, <<>>), column, <<>>), stat_name, PyNone)

\* rule_evaluator.missing_rate: 0.0 when the cache has no value
missing_rate(stats_cache, dataset_id, column) ==
    LET value == StatisticsCache_get(stats_cache, dataset_id, column, "missing_rate")
    IN  IF value.t = "none" THEN PyNum(0) ELSE value

\* rule_evaluator.unique_count: 0 when the cache has no value
unique_count(stats_cache, dataset_id, column) ==
    LET value == StatisticsCache_get(stats_cache, dataset_id, column, "unique_count")
    IN  IF value.t = "none" THEN PyNum(0) ELSE value

DictAfterGet_inserting(d, key, default) ==
    IF key \in DOMAIN d THEN d ELSE SetItem(d, key, default)

\* the dict after d.get(key, default): get stores nothing
DictAfterGet(d, key, default) == d

\* the context after context.get(field, {}).get(stat) of a registry function
ContextAfterCall(context, call) ==
    LET outer == DictAfterGet(context, call.field, <<>>)
    IN  IF call.field \in DOMAIN outer
        THEN SetItem(outer, call.field, DictAfterGet(outer[call.field], call.func, PyNone))
        ELSE outer

\* the context after the registry calls of an evaluation, in call order
RECURSIVE ContextAfterCalls(_, _)
ContextAfterCalls(context, calls) ==
    IF calls = <<>> THEN context
    ELSE ContextAfterCalls(ContextAfterCall(context, Head(calls)), Tail(calls))

\* stats after self.stats.get(dataset_id, {}).get(column, {}).get(stat_name, default)
StatsAfterGet(stats, dataset_id, column, stat_name) ==
    LET outer == DictAfterGet(stats, dataset_id, <<>>)
        middle == DictAfterGet(Get(outer, dataset_id, <<>>), column, <<>>)
        inner == DictAfterGet(Get(middle, column, <<>>), stat_name, PyNone)
    IN  IF dataset_id \notin DOMAIN outer THEN outer
        ELSE IF column \notin DOMAIN middle THEN SetItem(outer, dataset_id, middle)
        ELSE SetItem(outer, dataset_id, SetItem(middle, column, inner))

CallEvaluateAst ==
    /\ evalArgs # <<>>
    /\ evalResult = <<>>
    /\ evalResult' = <<evaluate_ast(evalArgs[1].ast, evalArgs[1].context)>>
    /\ contextNow' =
          <<ContextAfterCalls(contextNow[1],
                              evaluate_ast(evalArgs[1].ast, contextNow[1]).calls)>>
    /\ UNCHANGED <<evalArgs, statArgs, statResult, statsNow>>
    /\ UNCHANGED nonEvalVars

CallStatistic ==
    /\ statArgs # <<>>
    /\ statResult = <<>>
    /\ statResult' =
          <<IF statArgs[1].function = "missing_rate"
            THEN missing_rate(statArgs[1].stats_cache, statArgs[1].dataset_id,
                              statArgs[1].column)
            ELSE unique_count(statArgs[1].stats_cache, statArgs[1].dataset_id,
                              statArgs[1].column)>>
    /\ statsNow' =
          <<StatsAfterGet(statsNow[1], statArgs[1].dataset_id, statArgs[1].column,
                          statArgs[1].function)>>
    /\ UNCHANGED <<evalArgs, evalResult, statArgs, contextNow>>
    /\ UNCHANGED nonEvalVars

\* the profiling contexts: no field, one field, two fields; a field has some
\* of the statistics
Contexts ==
    {<<>>,
     [age |-> [mean |-> PyNum(5), missing_rate |-> PyNum(0)]],
     [age |-> [mean |-> PyNum(2), std |-> PyNum(1), unique_count |-> PyNum(4)],
      city |-> [mode |-> PyStr("x")]]}

Literals ==
    {Literal(PyBool(TRUE)), Literal(PyBool(FALSE)), Literal(PyNone), Literal(PyNum(3)),
     Literal(PyStr("x"))}

\* calls of every registered function and of one that is not registered
FunctionCalls ==
    {FunctionCall(n, f) : n \in FunctionRegistry \cup {"median"}, f \in {"age", "city"}}

\* comparisons by every operator of the registry and by one that is not in it
Comparisons ==
    {Comparison(l, op, r) :
        l \in {FunctionCall("mean", "age"), FunctionCall("mode", "city"),
               FunctionCall("median", "age"), Literal(PyNone), Literal(PyNum(3))},
        op \in OperatorRegistry \cup {"~="},
        r \in {Literal(PyNum(3)), Literal(PyNone), Literal(PyStr("x"))}}

\* the operands of the logical expressions
Operands ==
    {Literal(PyBool(TRUE)), Literal(PyBool(FALSE)), Literal(PyNone),
     FunctionCall("mean", "age"),
     Comparison(FunctionCall("mean", "age"), "<", Literal(PyNum(3))),
     Comparison(FunctionCall("median", "age"), "<", Literal(PyNum(3)))}

LogicalExpressions ==
    {LogicalExpression(l, op, r) :
        l \in Operands, op \in {"AND", "OR", "and", "XOR"}, r \in Operands}

\* NOT c as a LogicalExpression with a single operand, alone and under AND
Negations == {LogicalExpression(c, "NOT", NoOperand) : c \in Operands}

NegationsUnderAnd == {LogicalExpression(n, "AND", c) : n \in Negations, c \in Operands}

ASTs ==
    Literals \cup FunctionCalls \cup Comparisons \cup LogicalExpressions
    \cup Negations \cup NegationsUnderAnd \cup {NoOperand}

EvalArgs == {[ast |-> a, context |-> c] : a \in ASTs, c \in Contexts}

\* the statistics caches: empty, or holding one statistic of one column
StatsCaches ==
    {<<>>,
     [d1 |-> [age |-> [missing_rate |-> PyNum(2)]]],
     [d1 |-> [age |-> [unique_count |-> PyNum(4)]]]}

StatArgs ==
    {[function |-> f, stats_cache |-> c, dataset_id |-> d, column |-> col] :
        f \in {"missing_rate", "unique_count"}, c \in StatsCaches,
        d \in {"d1", "d2"}, col \in {"age", "city"}}

InitEval ==
    /\ IdleDrift
    /\ IdleExpectation
    /\ IdleRoundTrip
    /\ IdleEvaluate
    /\ IdleAudit
    /\ IdleEngine
    /\ IdleExit
    /\ IdleParse
    /\ evalResult = <<>>
    /\ statResult = <<>>
    /\ \/ /\ evalArgs \in {<<a>> : a \in EvalArgs}
          /\ contextNow = <<evalArgs[1].context>>
          /\ statArgs = <<>>
          /\ statsNow = <<>>
       \/ /\ statArgs \in {<<a>> : a \in StatArgs}
          /\ statsNow = <<statArgs[1].stats_cache>>
          /\ evalArgs = <<>>
          /\ contextNow = <<>>

NextEval == CallEvaluateAst \/ CallStatistic

SpecEval == InitEval /\ [][NextEval]_vars

---------------------------------------------------------------------------
(* Properties of evaluate_ast and of the statistic functions *)

EvalDone == evalArgs # <<>> /\ evalResult # <<>>

\* a finished evaluation of a LogicalExpression whose operator is AND or OR
LogicalDone ==
    /\ EvalDone
    /\ evalArgs[1].ast.type = "LogicalExpression"
    /\ Upper(evalArgs[1].ast.operator) \in {"AND", "OR"}

\* what the operands of the evaluated expression evaluate to on their own
LeftAlone == evaluate_ast(evalArgs[1].ast.left, evalArgs[1].context)

RightAlone == evaluate_ast(evalArgs[1].ast.right, evalArgs[1].context)

IsNone(r) == r.status = "ok" /\ r.value.t = "none"

IsBool(r, b) == r.status = "ok" /\ r.value.t = "bool" /\ r.value.v = b

\* C13: logical evaluation short-circuits: AND evaluates its right operand only
\* if the left is truthy, OR only if the left is falsy; when the right operand
\* is skipped the result is the left's, nothing of the right operand is called
\* and nothing it would raise is raised, so `false AND <unknown function>` is
\* false.
C13_LogicalEvaluationShortCircuits ==
    (LogicalDone /\ LeftAlone.status = "ok") =>
        LET op == Upper(evalArgs[1].ast.operator)
            skipped == \/ op = "AND" /\ ~Truthy(LeftAlone.value)
                       \/ op = "OR" /\ Truthy(LeftAlone.value)
        IN  /\ skipped => evalResult[1] = LeftAlone
            /\ ~skipped =>
                  /\ evalResult[1].calls = LeftAlone.calls \o RightAlone.calls
                  /\ evalResult[1].status = RightAlone.status
            /\ (op = "AND" /\ evalArgs[1].ast.left = Literal(PyBool(FALSE))) =>
                  /\ IsBool(evalResult[1], FALSE)
                  /\ evalResult[1].calls = <<>>

\* `false AND median(age) < 3` returned false although median is not registered
C13_Witness ==
    /\ EvalDone
    /\ evalArgs[1].ast =
          LogicalExpression(Literal(PyBool(FALSE)), "AND",
                            Comparison(FunctionCall("median", "age"), "<", Literal(PyNum(3))))
    /\ RightAlone.status = "ValueError"
    /\ IsBool(evalResult[1], FALSE)

\* C14: a Comparison one of whose sides evaluates to None evaluates to None,
\* for every operator of the registry, and does not raise.
C14_ComparisonWithNoneIsNone ==
    (/\ EvalDone
     /\ evalArgs[1].ast.type = "Comparison"
     /\ evalArgs[1].ast.operator \in OperatorRegistry
     /\ LeftAlone.status = "ok"
     /\ RightAlone.status = "ok"
     /\ (LeftAlone.value.t = "none" \/ RightAlone.value.t = "none"))
    => IsNone(evalResult[1])

\* C15: `None AND x`, `true AND None`, `None OR x` and `false OR None` are
\* None, `false AND None` is false and `true OR None` is true.
C15_NoneOperandMakesNone ==
    (LogicalDone /\ LeftAlone.status = "ok" /\ RightAlone.status = "ok") =>
        LET op == Upper(evalArgs[1].ast.operator)
            l == LeftAlone.value
            r == RightAlone.value
        IN  /\ (op = "AND" /\ l.t = "none") => IsNone(evalResult[1])
            /\ (op = "AND" /\ l = PyBool(TRUE) /\ r.t = "none") => IsNone(evalResult[1])
            /\ (op = "OR" /\ l.t = "none") => IsNone(evalResult[1])
            /\ (op = "OR" /\ l = PyBool(FALSE) /\ r.t = "none") => IsNone(evalResult[1])
            /\ (op = "AND" /\ l = PyBool(FALSE) /\ r.t = "none") => IsBool(evalResult[1], FALSE)
            /\ (op = "OR" /\ l = PyBool(TRUE) /\ r.t = "none") => IsBool(evalResult[1], TRUE)

\* C16: a statistic function applied to a field for which there is no value
\* returns None and never 0 or another default, for the registry's functions
\* and for missing_rate and unique_count on the statistics cache.
C16_AbsentStatisticIsNone ==
    /\ (/\ EvalDone
        /\ evalArgs[1].ast.type = "FunctionCall"
        /\ evalArgs[1].ast.func_name \in FunctionRegistry
        /\ evalArgs[1].ast.func_name \notin
              DOMAIN Get(evalArgs[1].context, evalArgs[1].ast.field_name, <<>>))
       => IsNone(evalResult[1])
    /\ (/\ statArgs # <<>>
        /\ statResult # <<>>
        /\ statArgs[1].function \notin
              DOMAIN Get(Get(statArgs[1].stats_cache, statArgs[1].dataset_id, <<>>),
                         statArgs[1].column, <<>>))
       => statResult[1].t = "none"

\* C18: NOT negates the boolean result of the expression that follows it:
\* `NOT c` is true when c is false and false when c is true, and
\* `NOT c1 AND c2` negates only c1.
C18_NotNegatesNearestOperand ==
    /\ (EvalDone /\ evalArgs[1].ast \in Negations) =>
          \A b \in BOOLEAN : IsBool(LeftAlone, b) => IsBool(evalResult[1], ~b)
    /\ (EvalDone /\ evalArgs[1].ast \in NegationsUnderAnd) =>
          LET c1 == evaluate_ast(evalArgs[1].ast.left.left, evalArgs[1].context)
          IN  \A b1, b2 \in BOOLEAN :
                  (IsBool(c1, b1) /\ IsBool(RightAlone, b2)) =>
                      IsBool(evalResult[1], ~b1 /\ b2)

---------------------------------------------------------------------------
(* RuleParser.tokenize: re.findall of token_pattern over the rule string.
   A string is the sequence of its characters; a match is reported by the
   position just after it, 0 meaning that the alternative does not match. *)

Digits == {"0", "1", "2", "3", "4", "5", "6", "7", "8", "9"}

Letters ==
    {"a", "b", "c", "d", "e", "f", "g", "h", "i", "j", "k", "l", "m", "n", "o", "p", "q",
     "r", "s", "t", "u", "v", "w", "x", "y", "z",
     "A", "B", "C", "D", "E", "F", "G", "H", "I", "J", "K", "L", "M", "N", "O", "P", "Q",
     "R", "S", "T", "U", "V", "W", "X", "Y", "Z"}

\* \w
WordChars == Letters \cup Digits \cup {"_"}

Quotes == {"\"", "'"}

\* the first position from i on whose character is in chars, Len(s) + 1 if none
FirstIn(s, i, chars) ==
    LET hits == {k \in i..Len(s) : s[k] \in chars}
    IN  IF hits = {} THEN Len(s) + 1 ELSE CHOOSE k \in hits : \A m \in hits : k <= m

\* the position after the longest run of characters of chars that starts at i
RunEnd(s, i, chars) ==
    LET stops == {k \in i..Len(s) : s[k] \notin chars}
    IN  IF stops = {} THEN Len(s) + 1 ELSE CHOOSE k \in stops : \A m \in stops : k <= m

\* (\w+\([\w\.]+\))
MatchFunctionCall(s, i) ==
    LET a == RunEnd(s, i, WordChars)
        b == RunEnd(s, a + 1, WordChars \cup {"."})
    IN  IF a = i \/ a > Len(s) THEN 0
        ELSE IF s[a] # "(" THEN 0
        ELSE IF b = a + 1 \/ b > Len(s) THEN 0
        ELSE IF s[b] # ")" THEN 0
        ELSE b + 1

\* (==|!=|<=|>=|<|>)
MatchComparisonOp(s, i) ==
    IF i + 1 <= Len(s) /\ s[i] \in {"=", "!", "<", ">"} /\ s[i + 1] = "=" THEN i + 2
    ELSE IF s[i] \in {"<", ">"} THEN i + 1
    ELSE 0

\* (\d+\.\d+|\d+)
MatchNumber(s, i) ==
    LET d == RunEnd(s, i, Digits)
        e == RunEnd(s, d + 1, Digits)
    IN  IF d = i THEN 0
        ELSE IF d <= Len(s) /\ s[d] = "." /\ e > d + 1 THEN e
        ELSE d

\* (["'][^"']+["'])
MatchString(s, i) ==
    LET q == FirstIn(s, i + 1, Quotes)
    IN  IF s[i] \notin Quotes THEN 0
        ELSE IF q = i + 1 \/ q > Len(s) THEN 0
        ELSE q + 1

MatchOpenParen_never(s, i) == 0

\* (\()
MatchOpenParen(s, i) == IF s[i] = "(" THEN i + 1 ELSE 0

\* (\))
MatchCloseParen(s, i) == IF s[i] = ")" THEN i + 1 ELSE 0

\* the keywords of the last alternative, as character sequences
Keywords == {<<"A", "N", "D">>, <<"O", "R">>, <<"N", "O", "T">>}

\* re.IGNORECASE on the letters of the keywords
UpperChar(c) ==
    CASE c = "a" -> "A" [] c = "n" -> "N" [] c = "d" -> "D"
      [] c = "o" -> "O" [] c = "r" -> "R" [] c = "t" -> "T"
      [] OTHER -> c

UpperText(text) == [k \in 1..Len(text) |-> UpperChar(text[k])]

\* \b before position i and before position j: a word character on exactly
\* one side
WordBoundary(s, j) ==
    LET before == j > 1 /\ j - 1 <= Len(s) /\ s[j - 1] \in WordChars
        after == j >= 1 /\ j <= Len(s) /\ s[j] \in WordChars
    IN  before # after

\* (\bAND\b|\bOR\b|\bNOT\b)
MatchLogicalOp(s, i) ==
    LET hits == {kw \in Keywords :
                    /\ i + Len(kw) - 1 <= Len(s)
                    /\ UpperText(SubSeq(s, i, i + Len(kw) - 1)) = kw
                    /\ WordBoundary(s, i)
                    /\ WordBoundary(s, i + Len(kw))}
    IN  IF hits = {} THEN 0 ELSE i + Len(CHOOSE kw \in hits : TRUE)

\* the alternatives in the order of the pattern: the first that matches at i
\* decides the group (1..7) and the end of the match; group 0 is no match
MatchAt(s, i) ==
    LET ends == <<MatchFunctionCall(s, i), MatchComparisonOp(s, i), MatchNumber(s, i),
                  MatchString(s, i), MatchOpenParen(s, i), MatchCloseParen(s, i),
                  MatchLogicalOp(s, i)>>
        groups == {g \in 1..7 : ends[g] # 0}
        first == CHOOSE g \in groups : \A h \in groups : g <= h
    IN  IF groups = {} THEN [group |-> 0, start |-> i, end |-> i]
        ELSE [group |-> first, start |-> i, end |-> ends[first]]

\* the scan of re.findall: a match is taken and the scan goes on after it,
\* a position where nothing matches is stepped over
RECURSIVE FindAll(_, _)
FindAll(s, i) ==
    IF i > Len(s) THEN <<>>
    ELSE LET m == MatchAt(s, i)
         IN  IF m.group = 0 THEN FindAll(s, i + 1)
             ELSE <<m>> \o FindAll(s, m.end)

\* what findall reports for a match of a pattern with seven groups: the text
\* of the group that took part and "" for the others
GroupTuple(s, m) ==
    [g \in 1..7 |-> IF g = m.group THEN SubSeq(s, m.start, m.end - 1) ELSE <<>>]

\* RuleParser.tokenize: returns the list of group tuples; no exception is raised
tokenize(rule_string) ==
    LET found == FindAll(rule_string, 1)
    IN  [status |-> "ok",
         matches |-> [k \in 1..Len(found) |-> GroupTuple(rule_string, found[k])]]

\* the texts of a list joined into one
RECURSIVE Concat(_)
Concat(texts) == IF texts = <<>> THEN <<>> ELSE Head(texts) \o Concat(Tail(texts))

\* [t for group in tokens for t in group if t]
RECURSIVE Flatten(_)
RECURSIVE Flatten_into_characters(_)
Flatten_into_characters(groups) ==
    IF groups = <<>> THEN <<>>
    ELSE [k \in 1..Len(Concat(Head(groups))) |-> <<Concat(Head(groups))[k]>>]
         \o Flatten_into_characters(Tail(groups))

Flatten(groups) ==
    IF groups = <<>> THEN <<>>
    ELSE SelectSeq(Head(groups), LAMBDA t : t # <<>>) \o Flatten(Tail(groups))

---------------------------------------------------------------------------
(* build_ast: the recursive-descent builder of the rule grammar
     expression := or_expr
     or_expr    := and_expr (OR and_expr)*
     and_expr   := unary (AND unary)*
     unary      := NOT unary | primary
     primary    := comparison | "(" expression ")"
     comparison := function_call operator (number | string)           *)

\* the lexical class of a token: the group of the pattern that matches all of
\* it (1 function call, 2 operator, 3 number, 4 string, 5 "(", 6 ")",
\* 7 AND/OR/NOT), 0 if none does
TokenClass(tok) ==
    IF tok = <<>> THEN 0
    ELSE LET m == MatchAt(tok, 1)
         IN  IF m.end = Len(tok) + 1 THEN m.group ELSE 0

\* the classes of the tokens of a list, position by position
TokenClasses(tokens) == [k \in 1..Len(tokens) |-> TokenClass(tokens[k])]

\* the class of the token at pos, 0 after the end of the list
ClassAt(classes, pos) == IF pos <= Len(classes) THEN classes[pos] ELSE 0

\* the token at pos is the keyword kw, in any case
KeywordAt(tokens, classes, pos, kw) ==
    ClassAt(classes, pos) = 7 /\ UpperText(tokens[pos]) = kw

\* the operator symbol of an operator token
OperatorSymbol(tok) ==
    CASE tok = <<"=", "=">> -> "=="
      [] tok = <<"!", "=">> -> "!="
      [] tok = <<"<", "=">> -> "<="
      [] tok = <<">", "=">> -> ">="
      [] tok = <<"<">> -> "<"
      [] tok = <<">">> -> ">"

DigitValue(c) == (CHOOSE n \in 1..10 : <<"0", "1", "2", "3", "4", "5", "6", "7", "8", "9">>[n] = c) - 1

RECURSIVE DigitsValue(_)
DigitsValue(digits) ==
    IF digits = <<>> THEN 0
    ELSE 10 * DigitsValue(SubSeq(digits, 1, Len(digits) - 1)) + DigitValue(digits[Len(digits)])

\* the value of a number token: an integer, or an integer part with the
\* digits after the point
NumberValue(tok) ==
    LET point == FirstIn(tok, 1, {"."})
    IN  IF point > Len(tok) THEN PyNum(DigitsValue(tok))
        ELSE [t |-> "num", v |-> DigitsValue(SubSeq(tok, 1, point - 1)),
              frac |-> SubSeq(tok, point + 1, Len(tok))]

\* the value of a quoted token: the text between the quotes
StringValue(tok) == PyStr(SubSeq(tok, 2, Len(tok) - 1))

\* the FunctionCall node of a token name(field)
FunctionCallOf(tok) ==
    LET open == FirstIn(tok, 1, {"("})
    IN  FunctionCall(SubSeq(tok, 1, open - 1), SubSeq(tok, open + 1, Len(tok) - 1))

Parsed(ast, pos) == [status |-> "ok", ast |-> ast, pos |-> pos]

\* ParseError naming the offending position
ParseError(pos) == [status |-> "ParseError", ast |-> NoOperand, pos |-> pos]

\* comparison := function_call operator (number | string)
comparison(tokens, classes, pos) ==
    IF ClassAt(classes, pos) # 1 THEN ParseError(pos)
    ELSE IF ClassAt(classes, pos + 1) # 2 THEN ParseError(pos + 1)
    ELSE IF ClassAt(classes, pos + 2) = 3
         THEN Parsed(Comparison(FunctionCallOf(tokens[pos]), OperatorSymbol(tokens[pos + 1]),
                                Literal(NumberValue(tokens[pos + 2]))), pos + 3)
    ELSE IF ClassAt(classes, pos + 2) = 4
         THEN Parsed(Comparison(FunctionCallOf(tokens[pos]), OperatorSymbol(tokens[pos + 1]),
                                Literal(StringValue(tokens[pos + 2]))), pos + 3)
    ELSE ParseError(pos + 2)

\* the productions above comparison, as one recursive descent; left is the
\* operand already built when the rest of an and_expr or or_expr is read:
\*   primary  := comparison | "(" expression ")"
\*   unary    := NOT unary | primary; NOT is a LogicalExpression with one operand
\*   and_rest := (AND unary)*, left-associative
\*   and_expr := unary (AND unary)*
\*   or_rest  := (OR and_expr)*, left-associative
\*   or_expr  := and_expr (OR and_expr)*
RECURSIVE descend(_, _, _, _, _)
descend(production, tokens, classes, pos, left) ==
    CASE production = "primary" ->
            IF ClassAt(classes, pos) = 5
            THEN LET inner == descend("or_expr", tokens, classes, pos + 1, NoOperand)
                 IN  IF inner.status # "ok" THEN inner
                     ELSE IF ClassAt(classes, inner.pos) = 6
                          THEN Parsed(inner.ast, inner.pos + 1)
                     ELSE ParseError(inner.pos)
            ELSE comparison(tokens, classes, pos)
      [] production = "unary" ->
            IF KeywordAt(tokens, classes, pos, <<"N", "O", "T">>)
            THEN LET operand == descend("unary", tokens, classes, pos + 1, NoOperand)
                 IN  IF operand.status # "ok" THEN operand
                     ELSE Parsed(LogicalExpression(operand.ast, "NOT", NoOperand),
                                 operand.pos)
            ELSE descend("primary", tokens, classes, pos, NoOperand)
      [] production = "and_rest" ->
            IF KeywordAt(tokens, classes, pos, <<"A", "N", "D">>)
            THEN LET right == descend("unary", tokens, classes, pos + 1, NoOperand)
                 IN  IF right.status # "ok" THEN right
                     ELSE descend("and_rest", tokens, classes, right.pos,
                                  LogicalExpression(left, "AND", right.ast))
            ELSE Parsed(left, pos)
      [] production = "and_expr" ->
            LET first == descend("unary", tokens, classes, pos, NoOperand)
            IN  IF first.status # "ok" THEN first
                ELSE descend("and_rest", tokens, classes, first.pos, first.ast)
      [] production = "or_rest" ->
            IF KeywordAt(tokens, classes, pos, <<"O", "R">>)
            THEN LET right == descend("and_expr", tokens, classes, pos + 1, NoOperand)
                 IN  IF right.status # "ok" THEN right
                     ELSE descend("or_rest", tokens, classes, right.pos,
                                  LogicalExpression(left, "OR", right.ast))
            ELSE Parsed(left, pos)
      [] production = "or_expr" ->
            LET first == descend("and_expr", tokens, classes, pos, NoOperand)
            IN  IF first.status # "ok" THEN first
                ELSE descend("or_rest", tokens, classes, first.pos, first.ast)

\* expression := or_expr
expression(tokens, pos) == descend("or_expr", tokens, TokenClasses(tokens), pos, NoOperand)

build_ast_ignoring_rest(tokens) == expression(tokens, 1)

\* the whole token stream must be an expression
build_ast(tokens) ==
    LET whole == expression(tokens, 1)
    IN  IF whole.status # "ok" THEN whole
        ELSE IF whole.pos <= Len(tokens) THEN ParseError(whole.pos)
        ELSE whole

\* `tokens = self.tokenize(rule_string)` and the flattening of the group
\* tuples: the list that parse hands to build_ast
normalized_tokens(rule_string) == Flatten(tokenize(rule_string).matches)

\* RuleParser.parse: tokenize, flatten the group tuples, build the AST
parse(rule_string) == build_ast(normalized_tokens(rule_string))

CallTokenize ==
    /\ parseArgs # <<>>
    /\ tokenizeResult = <<>>
    /\ tokenizeResult' = <<tokenize(parseArgs[1])>>
    /\ UNCHANGED <<parseArgs, parseResult, buildArgs, buildResult>>
    /\ UNCHANGED nonParseVars

CallParse ==
    /\ parseArgs # <<>>
    /\ parseResult = <<>>
    /\ parseResult' = <<parse(parseArgs[1])>>
    /\ UNCHANGED <<parseArgs, tokenizeResult, buildArgs, buildResult>>
    /\ UNCHANGED nonParseVars

CallBuildAst ==
    /\ buildArgs # <<>>
    /\ buildResult = <<>>
    /\ buildResult' = <<build_ast(buildArgs[1])>>
    /\ UNCHANGED <<parseArgs, tokenizeResult, parseResult, buildArgs>>
    /\ UNCHANGED nonParseVars

\* the longest rule string and the longest token list that are enumerated
MaxLen == 3

MaxTokens == 5

\* one character of every kind the pattern tells apart, and one it rejects
RuleAlphabet == {"a", "o", "r", "1", "(", ")", "<", "=", ".", " ", "'", "@"}

SeqsUpTo(elements, n) == UNION {[1..k -> elements] : k \in 0..n}

\* the comparisons that the longer rule strings are made of
ComparisonTexts ==
    {<<"a", "(", "x", ")", " ", ">", " ", "1">>,
     <<"a", "(", "x", ")", "<", "0">>,
     <<"b", "(", "y", ".", "z", ")", "=", "=", "'", "v", "'">>}

OrText == <<" ", "O", "R", " ">>

AndText == <<" ", "a", "n", "d", " ">>

\* c1 OR c2 AND c3, without parentheses and with each of the two groupings
Plain(c1, c2, c3) == c1 \o OrText \o c2 \o AndText \o c3

RightGrouped(c1, c2, c3) == c1 \o OrText \o <<"(">> \o c2 \o AndText \o c3 \o <<")">>

LeftGrouped(c1, c2, c3) == <<"(">> \o c1 \o OrText \o c2 \o <<")">> \o AndText \o c3

PrecedenceRules ==
    UNION {{Plain(c1, c2, c3), RightGrouped(c1, c2, c3), LeftGrouped(c1, c2, c3)} :
              c1 \in ComparisonTexts, c2 \in ComparisonTexts, c3 \in ComparisonTexts}

\* rule strings with a span that is no token, with NOT and with a decimal
OtherRules ==
    {<<"a", "(", "x", ")", " ", "@", " ", "5">>,
     <<"a", "(", "x", ")", " ", "<", " ", "5", " ", "x", "y">>,
     <<"N", "O", "T", " ", "a", "(", "x", ")", "<", "1", ".", "5">>,
     <<"n", "o", "t", "a", "(", "x", ")", "<", "1">>}

RuleStrings == SeqsUpTo(RuleAlphabet, MaxLen) \cup PrecedenceRules \cup OtherRules

\* one token of each kind the short token lists are made of
TokenAlphabet ==
    {<<"a", "(", "x", ")">>, <<"<">>, <<"1">>, <<"(">>, <<")">>, <<"A", "N", "D">>}

\* longer token lists, with OR, NOT, a string and a text that is no token
OtherTokenLists ==
    {<<<<"a", "(", "x", ")">>, <<"<">>, <<"1">>, <<"o", "r">>,
       <<"a", "(", "x", ")">>, <<"=", "=">>, <<"'", "v", "'">>>>,
     <<<<"N", "O", "T">>, <<"N", "O", "T">>, <<"a", "(", "x", ")">>, <<"<">>, <<"1">>>>,
     <<<<"(">>, <<"a", "(", "x", ")">>, <<"<">>, <<"1">>, <<"O", "R">>,
       <<"a", "(", "x", ")">>, <<"<">>, <<"1">>>>,
     <<<<"a", "(", "x", ")">>, <<"<">>, <<"1">>, <<"O", "R">>>>,
     <<<<"a", "(", "x", ")">>, <<"<">>, <<"1">>, <<"@">>>>,
     <<<<"a", "(", "x", ")">>, <<"<">>, <<"N", "O", "T">>>>}

TokenLists == SeqsUpTo(TokenAlphabet, MaxTokens) \cup OtherTokenLists

InitParse ==
    /\ IdleDrift
    /\ IdleExpectation
    /\ IdleRoundTrip
    /\ IdleEvaluate
    /\ IdleAudit
    /\ IdleEngine
    /\ IdleExit
    /\ IdleEval
    /\ tokenizeResult = <<>>
    /\ parseResult = <<>>
    /\ buildResult = <<>>
    /\ \/ parseArgs \in {<<r>> : r \in RuleStrings} /\ buildArgs = <<>>
       \/ buildArgs \in {<<t>> : t \in TokenLists} /\ parseArgs = <<>>

NextParse == CallTokenize \/ CallParse \/ CallBuildAst

SpecParse == InitParse /\ [][NextParse]_vars

---------------------------------------------------------------------------
(* Properties of tokenize, build_ast and parse *)

ParseDone == parseArgs # <<>> /\ parseResult # <<>>

TokenizeDone == parseArgs # <<>> /\ tokenizeResult # <<>>

BuildDone == buildArgs # <<>> /\ buildResult # <<>>

\* the AST of each comparison text, written out
ComparisonAst(c) ==
    CASE c = <<"a", "(", "x", ")", " ", ">", " ", "1">> ->
            Comparison(FunctionCall(<<"a">>, <<"x">>), ">", Literal(PyNum(1)))
      [] c = <<"a", "(", "x", ")", "<", "0">> ->
            Comparison(FunctionCall(<<"a">>, <<"x">>), "<", Literal(PyNum(0)))
      [] c = <<"b", "(", "y", ".", "z", ")", "=", "=", "'", "v", "'">> ->
            Comparison(FunctionCall(<<"b">>, <<"y", ".", "z">>), "==", Literal(PyStr(<<"v">>)))

Whitespace == {" "}

\* the characters of a text that are not whitespace, in order
NonWhitespace(text) == SelectSeq(text, LAMBDA c : c \notin Whitespace)

\* C19: tokenize fails with TokenizeError whenever some non-whitespace span of
\* the rule string matches no lexical class: a token sequence that it returns
\* never omits part of the input, so the tokens spell the whole rule string
\* up to whitespace.
C19_TokenizeNeverOmitsInput ==
    TokenizeDone =>
        \/ tokenizeResult[1].status = "TokenizeError"
        \/ /\ tokenizeResult[1].status = "ok"
           /\ NonWhitespace(Concat(Flatten(tokenizeResult[1].matches)))
                 = NonWhitespace(parseArgs[1])

\* the grammar as a relation on the spans i..j of a token list
RECURSIVE IsOrExpr(_, _, _)
RECURSIVE IsAndExpr(_, _, _)
RECURSIVE IsUnary(_, _, _)
RECURSIVE IsPrimary(_, _, _)

IsComparison(tokens, i, j) ==
    /\ j = i + 2
    /\ TokenClass(tokens[i]) = 1
    /\ TokenClass(tokens[i + 1]) = 2
    /\ TokenClass(tokens[j]) \in {3, 4}

IsPrimary(tokens, i, j) ==
    \/ IsComparison(tokens, i, j)
    \/ /\ i + 2 <= j
       /\ tokens[i] = <<"(">>
       /\ tokens[j] = <<")">>
       /\ IsOrExpr(tokens, i + 1, j - 1)

IsUnary(tokens, i, j) ==
    \/ IsPrimary(tokens, i, j)
    \/ /\ i < j
       /\ UpperText(tokens[i]) = <<"N", "O", "T">>
       /\ IsUnary(tokens, i + 1, j)

IsAndExpr(tokens, i, j) ==
    \/ IsUnary(tokens, i, j)
    \/ \E k \in (i + 1)..(j - 1) :
          /\ UpperText(tokens[k]) = <<"A", "N", "D">>
          /\ IsAndExpr(tokens, i, k - 1)
          /\ IsUnary(tokens, k + 1, j)

IsOrExpr(tokens, i, j) ==
    \/ IsAndExpr(tokens, i, j)
    \/ \E k \in (i + 1)..(j - 1) :
          /\ UpperText(tokens[k]) = <<"O", "R">>
          /\ IsOrExpr(tokens, i, k - 1)
          /\ IsAndExpr(tokens, k + 1, j)

\* the grammar accepts the token list in full
Accepted(tokens) == tokens # <<>> /\ IsOrExpr(tokens, 1, Len(tokens))

\* the grammar accepts a proper prefix of the token list
AcceptedPrefix(tokens) ==
    \E n \in 1..(Len(tokens) - 1) : Accepted(SubSeq(tokens, 1, n))

---------------------------------------------------------------------------
(* Further properties of evaluate_ast *)

\* C21: a comparison between a number and a string is never coerced: for
\* every operator of the registry, == and != included, it raises
\* (TypeMismatchError) instead of returning a boolean. Stated for any class
\* of exception: the evaluation does not return a value.
C21_NumberWithStringRaisesTypeMismatch ==
    (/\ EvalDone
     /\ evalArgs[1].ast.type = "Comparison"
     /\ evalArgs[1].ast.operator \in OperatorRegistry
     /\ LeftAlone.status = "ok"
     /\ RightAlone.status = "ok"
     /\ {LeftAlone.value.t, RightAlone.value.t} = {"num", "str"})
    => evalResult[1].status # "ok"

---------------------------------------------------------------------------
(* RuleEvaluator.evaluate: parse the rule string, then evaluate the AST *)

\* the Python string spelled by a character sequence, for the names and
\* values of the rules of the model
Str(chars) ==
    CASE chars = <<"m", "e", "a", "n">> -> "mean"
      [] chars = <<"m", "o", "d", "e">> -> "mode"
      [] chars = <<"m", "e", "d", "i", "a", "n">> -> "median"
      [] chars = <<"a", "g", "e">> -> "age"
      [] chars = <<"c", "i", "t", "y">> -> "city"
      [] chars = <<"x">> -> "x"
      [] OTHER -> "other"

\* the AST that parse returns, with its names and string values as strings
RECURSIVE AsEvaluatorAst(_)
AsEvaluatorAst(ast) ==
    CASE ast.type = "FunctionCall" ->
            FunctionCall(Str(ast.func_name), Str(ast.field_name))
      [] ast.type = "Comparison" ->
            Comparison(AsEvaluatorAst(ast.left), ast.operator, AsEvaluatorAst(ast.right))
      [] ast.type = "LogicalExpression" ->
            LogicalExpression(AsEvaluatorAst(ast.left), ast.operator,
                              AsEvaluatorAst(ast.right))
      [] ast.type = "Literal" ->
            IF ast.value.t = "str" THEN Literal(PyStr(Str(ast.value.v))) ELSE ast
      [] OTHER -> ast

\* return self.evaluate_ast(ast, context), unless parse raised
EvaluateParsed(parsed, context) ==
    IF parsed.status # "ok" THEN EvalRaised(parsed.status, <<>>)
    ELSE evaluate_ast(AsEvaluatorAst(parsed.ast), context)

\* ast = self.parser.parse(rule); return self.evaluate_ast(ast, context)
evaluate(rule, context) == EvaluateParsed(parse(rule), context)

\* the most evaluate calls on one evaluator that are followed
MaxEvaluations == 4

\* the rule strings of the policy: mean(age)<3, mode(city)=='x' and
\* median(age)>1 (median is not registered)
EvaluateRules ==
    <<<<"m", "e", "a", "n", "(", "a", "g", "e", ")", "<", "3">>,
      <<"m", "o", "d", "e", "(", "c", "i", "t", "y", ")", "=", "=", "'", "x", "'">>,
      <<"m", "e", "d", "i", "a", "n", "(", "a", "g", "e", ")", ">", "1">>>>

RECURSIVE Sum(_)
Sum(counts) == IF counts = <<>> THEN 0 ELSE Head(counts) + Sum(Tail(counts))

\* one call evaluator.evaluate(rule, context) for a rule of the policy: the
\* rule string is parsed in the call, nothing is kept from earlier calls
CallEvaluate ==
    /\ parseCalls # <<>>
    /\ Sum(parseCalls[1]) < MaxEvaluations
    /\ \E i \in 1..Len(EvaluateRules) :
          \E result \in {evaluate(EvaluateRules[i], contextNow[1])} :
              /\ parseCalls' = <<[parseCalls[1] EXCEPT ![i] = @ + 1]>>
              /\ lastEvaluate' = <<[rule |-> i, result |-> result]>>
              /\ contextNow' = <<ContextAfterCalls(contextNow[1], result.calls)>>
    /\ UNCHANGED <<evalArgs, evalResult, statArgs, statResult, statsNow>>
    /\ UNCHANGED <<auditVars, exitVars, rule_defs, parseVars, roundTripVars,
                   expectationVars, driftVars>>

InitEvaluate ==
    /\ IdleDrift
    /\ IdleExpectation
    /\ IdleRoundTrip
    /\ IdleAudit
    /\ IdleEngine
    /\ IdleExit
    /\ IdleParse
    /\ evalArgs = <<>>
    /\ evalResult = <<>>
    /\ statArgs = <<>>
    /\ statResult = <<>>
    /\ statsNow = <<>>
    /\ contextNow \in {<<c>> : c \in Contexts}
    /\ parseCalls = <<[i \in 1..Len(EvaluateRules) |-> 0]>>
    /\ lastEvaluate = <<>>

NextEvaluate == CallEvaluate

SpecEvaluate == InitEvaluate /\ [][NextEvaluate]_vars

\* single evaluations and sequences of evaluate calls
SpecEvalAll == (InitEval \/ InitEvaluate) /\ [][NextEval \/ NextEvaluate]_vars

\* C22: a rule's condition string is tokenized and parsed at most once: the
\* first evaluation of a rule parses it and every later evaluation reuses the
\* cached AST.
C22_RuleParsedAtMostOnce ==
    parseCalls # <<>> => \A i \in 1..Len(EvaluateRules) : parseCalls[1][i] <= 1

---------------------------------------------------------------------------
(* Further properties of run_audit *)

\* C23: a run terminates early only through an enforced fail-fast violation:
\* a violated rule that is in DRY_RUN mode, or has fail_fast unset, or runs
\* under a policy with enable_fail_fast false, never stops evaluation: the
\* loop goes on to the rule after it, every rule declared after it has been
\* evaluated when the run returns, and the result is not flagged
\* terminated_early unless some rule triggers fail-fast.
C23_OnlyEnforcedFailFastTerminatesEarly ==
    /\ pc \in {"rules", "finish", "done"} /\ readable =>
          \A k \in 1..Len(vsrc) : ~FailFastTrigger(vsrc[k]) => idx > vsrc[k]
    /\ Returned_ok =>
          /\ \A k \in 1..Len(vsrc) :
                ~FailFastTrigger(vsrc[k]) =>
                    \A j \in (vsrc[k] + 1)..Len(resolved[1].rules) :
                        \E e \in 1..Len(evaluated) : evaluated[e] = j
          /\ (\A k \in 1..Len(vsrc) : ~FailFastTrigger(vsrc[k])) =>
                Get(results[1], "terminated_early", FALSE) # TRUE

\* a DRY_RUN rule with fail_fast set was violated first and the rule after it
\* was evaluated nonetheless
C23_Witness ==
    /\ Returned_ok
    /\ Len(resolved[1].rules) = 2
    /\ resolved[1].enable_fail_fast
    /\ resolved[1].rules[1].fail_fast
    /\ resolved[1].rules[1].enforcement = DRY_RUN
    /\ vsrc = <<1>>
    /\ evaluated = <<1, 2>>

\* C25: in every audit result terminated_early is true if and only if
\* termination_rule is set; when it is set it names the rule of the last
\* violation, which is enforced and has fail_fast set; a run that completes
\* normally has terminated_early = false and termination_rule = None.
C25_TerminationFieldsAgree ==
    Returned_ok =>
        /\ "terminated_early" \in DOMAIN results[1]
        /\ "termination_rule" \in DOMAIN results[1]
        /\ results[1].terminated_early = (results[1].termination_rule # None)
        /\ results[1].terminated_early =>
              /\ vsrc # <<>>
              /\ results[1].termination_rule = ViolatedRule(Len(vsrc)).name
              /\ ViolatedRule(Len(vsrc)).enforcement = ENFORCE
              /\ ViolatedRule(Len(vsrc)).fail_fast
        /\ Len(evaluated) = Len(resolved[1].rules) =>
              /\ results[1].terminated_early = FALSE
              /\ results[1].termination_rule = None

---------------------------------------------------------------------------
(* Further properties of validate_dataset_against_rules *)

\* C26: validate_dataset_against_rules returns passed = true exactly when
\* its violation list is empty; the list holds at most one violation per
\* rule, in rule order, each carrying the string of its rule; a violation
\* of any severity, info and warning included, makes passed false.
C26_PassedIffNoViolations ==
    (pc = "engine_done" /\ results # <<>>) =>
        /\ results[1].passed = (results[1].violations = <<>>)
        /\ \A i \in 1..Len(rule_defs) : ViolationsOf(i) <= 1
        /\ Len(vsrc) = Len(results[1].violations)
        /\ \A k \in 1..Len(vsrc) :
              /\ results[1].violations[k].rule = rule_defs[vsrc[k]].rule
              /\ k > 1 => vsrc[k - 1] < vsrc[k]
        /\ (\E k \in 1..Len(results[1].violations) :
               results[1].violations[k].severity \in {"info", "warning"})
              => results[1].passed = FALSE

\* all the violations of a finished run are of severity info or warning
C26_Witness ==
    /\ pc = "engine_done" /\ results # <<>>
    /\ Len(results[1].violations) = 2
    /\ results[1].violations[1].severity = "info"
    /\ results[1].violations[2].severity = "warning"
    /\ results[1].passed = FALSE

---------------------------------------------------------------------------
(* AuditPolicy.to_dict and AuditPolicy.from_dict *)

\* In this part a RuleConfig object is the record of its eight attributes
\* and an AuditPolicy object the record of its eleven; the dict forms are
\* records keyed by the strings the code uses.  None is "None" for the
\* strings and the metadata, <<>> for exit_code.

\* dict.update: the entries of `other` are added or overwrite
Update(d, other) ==
    [k \in (DOMAIN d) \cup (DOMAIN other) |-> IF k \in DOMAIN other THEN other[k] ELSE d[k]]

\* ThresholdConfig.to_dict
Thresholds_to_dict(t) ==
    [max_missing |-> t.max_missing, max_drift_severity |-> t.max_drift_severity]

\* ThresholdConfig.from_dict; max_missing is kept in percent (0.05 is 5)
Thresholds_from_dict(data) ==
    [max_missing |-> Get(data, "max_missing", 5),
     max_drift_severity |-> Get(data, "max_drift_severity", "minor")]

\* SchemaCompatibilityConfig.to_dict
SchemaCompatibility_to_dict(c) ==
    [allow_type_narrowing |-> c.allow_type_narrowing,
     allow_column_drop |-> c.allow_column_drop]

\* SchemaCompatibilityConfig.from_dict
SchemaCompatibility_from_dict(data) ==
    [allow_type_narrowing |-> Get(data, "allow_type_narrowing", FALSE),
     allow_column_drop |-> Get(data, "allow_column_drop", FALSE)]

\* one element of rules_dict in to_dict
RuleDictOf(rule) ==
    [name |-> rule.name, condition |-> rule.condition, severity |-> rule.severity,
     message |-> rule.message, enforcement |-> rule.enforcement,
     fail_fast |-> rule.fail_fast, exit_code |-> rule.exit_code,
     metadata |-> rule.metadata]

\* AuditPolicy.to_dict
to_dict(self) ==
    [name |-> self.name,
     description |-> self.description,
     version |-> self.version,
     default_enforcement |-> self.default_enforcement,
     enable_fail_fast |-> self.enable_fail_fast,
     default_exit_codes |-> self.default_exit_codes,
     rules |-> [i \in 1..Len(self.rules) |-> RuleDictOf(self.rules[i])],
     thresholds |-> Thresholds_to_dict(self.thresholds),
     schema_compatibility |-> SchemaCompatibility_to_dict(self.schema_compatibility),
     metadata |-> self.metadata,
     extends |-> self.extends]

RuleConfigOf_policy_default(rule_dict, config) ==
    [name |-> rule_dict.name,
     condition |-> rule_dict.condition,
     severity |-> Get(rule_dict, "severity", "error"),
     message |-> Get(rule_dict, "message", None),
     enforcement |-> Get(config, "default_enforcement", ENFORCE),
     fail_fast |-> Get(rule_dict, "fail_fast", FALSE),
     exit_code |-> Get(rule_dict, "exit_code", <<>>),
     metadata |-> Get(rule_dict, "metadata", <<>>)]

\* the RuleConfig that from_dict builds of one entry of config['rules']
RuleConfigOf(rule_dict, config) ==
    [name |-> rule_dict.name,
     condition |-> rule_dict.condition,
     severity |-> Get(rule_dict, "severity", "error"),
     message |-> Get(rule_dict, "message", None),
     enforcement |-> Get(rule_dict, "enforcement",
                         Get(config, "default_enforcement", ENFORCE)),
     fail_fast |-> Get(rule_dict, "fail_fast", FALSE),
     exit_code |-> Get(rule_dict, "exit_code", <<>>),
     metadata |-> Get(rule_dict, "metadata", <<>>)]

\* the rule list that from_dict builds
RulesOf(rule_dicts, config) ==
    [i \in 1..Len(rule_dicts) |-> RuleConfigOf(rule_dicts[i], config)]

\* AuditPolicy.from_dict on a dict that has a name and whose rules have a
\* name and a condition, as every dict made by to_dict has
from_dict(config) ==
    [name |-> config.name,
     description |-> Get(config, "description", None),
     version |-> Get(config, "version", "1.0"),
     rules |-> RulesOf(Get(config, "rules", <<>>), config),
     thresholds |-> Thresholds_from_dict(Get(config, "thresholds", <<>>)),
     schema_compatibility |->
         SchemaCompatibility_from_dict(Get(config, "schema_compatibility", <<>>)),
     default_enforcement |-> Get(config, "default_enforcement", ENFORCE),
     enable_fail_fast |-> Get(config, "enable_fail_fast", TRUE),
     default_exit_codes |->
         IF "default_exit_codes" \in DOMAIN config
         THEN Update(DefaultExitCodes, config.default_exit_codes)
         ELSE DefaultExitCodes,
     extends |-> Get(config, "extends", None),
     metadata |-> Get(config, "metadata", <<>>)]

\* policy = AuditPolicy.from_dict(p.to_dict())
CallRoundTrip ==
    /\ roundArgs # <<>>
    /\ roundResult = <<>>
    /\ \E config \in {to_dict(roundArgs[1])} :
          roundResult' = <<[config |-> config, policy |-> from_dict(config)]>>
    /\ UNCHANGED <<roundArgs>>
    /\ UNCHANGED nonRoundTripVars

\* the rules a policy can hold at position i: each enforcement mode, with
\* and without fail_fast, with and without the optional attributes
RoundTripRules(i) ==
    {[name |-> RuleName(i), condition |-> "mean(age) < 10", severity |-> o.severity,
      message |-> o.message, enforcement |-> e, fail_fast |-> ff,
      exit_code |-> o.exit_code, metadata |-> o.metadata] :
        e \in EnforcementMode, ff \in BOOLEAN,
        o \in {[severity |-> "warning", message |-> None, exit_code |-> <<>>,
                metadata |-> None],
               [severity |-> "fatal", message |-> "too many", exit_code |-> <<7>>,
                metadata |-> [owner |-> "qa"]]}}

RoundTripRuleLists ==
    UNION {{f \in [1..n -> UNION {RoundTripRules(i) : i \in 1..n}] :
                \A i \in 1..n : f[i] \in RoundTripRules(i)} : n \in 0..MaxRules}

\* the AuditPolicy objects handed to the round trip
RoundTripPolicies ==
    {[name |-> "policy", description |-> None, version |-> "1.0", rules |-> rules,
      thresholds |-> [max_missing |-> o.max_missing, max_drift_severity |-> "minor"],
      schema_compatibility |-> [allow_type_narrowing |-> FALSE,
                                allow_column_drop |-> o.allow_column_drop],
      default_enforcement |-> de, enable_fail_fast |-> eff,
      default_exit_codes |-> table, extends |-> o.extends, metadata |-> <<>>] :
        rules \in RoundTripRuleLists, de \in EnforcementMode, eff \in BOOLEAN,
        table \in ExitTables,
        o \in {[max_missing |-> 5, allow_column_drop |-> FALSE, extends |-> None],
               [max_missing |-> 20, allow_column_drop |-> TRUE, extends |-> "base"]}}

InitRoundTrip ==
    /\ IdleAudit
    /\ IdleEngine
    /\ IdleExit
    /\ IdleEval
    /\ IdleParse
    /\ IdleEvaluate
    /\ IdleExpectation
    /\ IdleDrift
    /\ roundArgs \in {<<p>> : p \in RoundTripPolicies}
    /\ roundResult = <<>>

NextRoundTrip == CallRoundTrip

SpecRoundTrip == InitRoundTrip /\ [][NextRoundTrip]_vars

\* C27 as stated: AuditPolicy.from_dict(p.to_dict()) reproduces p for every
\* AuditPolicy p, its exit-code table included.
C27_RoundTripReproducesPolicy ==
    roundResult # <<>> => roundResult[1].policy = roundArgs[1]

\* C27: AuditPolicy.from_dict(p.to_dict()) reproduces p for every AuditPolicy
\* p, but for the exit-code table, which comes back as the default table
\* updated with p's entries: the same rules in the same order with the same
\* severity, enforcement, fail_fast and exit_code, and the same
\* default_enforcement, enable_fail_fast, extends and thresholds; a rule's
\* own enforcement mode survives when it differs from the policy default;
\* the table itself is reproduced when it has all seven default keys.
C27_RoundTripCompletesExitCodes ==
    roundResult # <<>> =>
        /\ roundResult[1].policy =
              [roundArgs[1] EXCEPT !.default_exit_codes =
                   Update(DefaultExitCodes, roundArgs[1].default_exit_codes)]
        /\ \A i \in 1..Len(roundArgs[1].rules) :
              roundResult[1].policy.rules[i].enforcement = roundArgs[1].rules[i].enforcement
        /\ DOMAIN DefaultExitCodes \subseteq DOMAIN roundArgs[1].default_exit_codes
              => roundResult[1].policy = roundArgs[1]

\* a policy with a full custom table and a rule whose enforcement differs
\* from the policy default has been through the round trip
C27_Witness ==
    /\ roundResult # <<>>
    /\ roundArgs[1].default_exit_codes = CustomExitCodes
    /\ Len(roundArgs[1].rules) = 2
    /\ roundArgs[1].default_enforcement = ENFORCE
    /\ roundArgs[1].rules[2].enforcement = DRY_RUN
    /\ roundResult[1].policy.rules[2].enforcement = DRY_RUN

---------------------------------------------------------------------------
(* ExpectationValidator.validate_dataset and ValidationReport.has_failures *)

\* longest list of expectations handed to validate_dataset
MaxExpectations == 3

\* `x is False`
IsFalse(x) == x.t = "bool" /\ ~x.v

\* ValidationResult(is_valid, expectation, message); the expectation object
\* is named by its position in the list
ValidationResult(is_valid, expectation, message) ==
    [is_valid |-> is_valid, expectation |-> expectation, message |-> message]

\* the result appended for a comparative expectation without a repository
SkippedResult(expectation) ==
    ValidationResult(PyNone, expectation,
        "Comparative expectation skipped - no snapshot repository available")

\* how expectation.validate(...) can end: a result whose is_valid is True or
\* False, for a comparative expectation also None, or an exception
ValidateOutcomes(kind) ==
    {[status |-> "ok", is_valid |-> PyBool(b)] : b \in BOOLEAN}
    \cup (IF kind = "comparative" THEN {[status |-> "ok", is_valid |-> PyNone]} ELSE {})
    \cup {[status |-> "raised", is_valid |-> PyNone]}

StopsValidation_on_falsy(exit_on_failure, result) ==
    exit_on_failure /\ ~Truthy(result.is_valid)

\* `if self.exit_on_failure and result.is_valid is False: break`
StopsValidation(exit_on_failure, result) ==
    exit_on_failure /\ IsFalse(result.is_valid)

\* ValidationReport.has_failures
has_failures(report_results) ==
    \E k \in 1..Len(report_results) : IsFalse(report_results[k].is_valid)

\* the result validate returned is appended, then the break is decided
AppendResult(result) ==
    /\ reportResults' = Append(reportResults, result)
    /\ IF StopsValidation(validateArgs[1].exit_on_failure, result)
       THEN expPc' = "break" /\ expIdx' = expIdx
       ELSE expPc' = "loop" /\ expIdx' = expIdx + 1

\* one iteration of `for expectation in expectations`
ValidateExpectation ==
    /\ expPc = "loop"
    /\ expIdx <= Len(validateArgs[1].expectations)
    /\ expSrc' = Append(expSrc, expIdx)
    /\ IF /\ validateArgs[1].expectations[expIdx] = "comparative"
          /\ ~validateArgs[1].snapshot_repository
       THEN /\ reportResults' = Append(reportResults, SkippedResult(expIdx))
            /\ expIdx' = expIdx + 1
            /\ expPc' = "loop"
       ELSE \E outcome \in ValidateOutcomes(validateArgs[1].expectations[expIdx]) :
               IF outcome.status = "raised"
               THEN /\ expPc' = "raised"
                    /\ UNCHANGED <<reportResults, expIdx>>
               ELSE AppendResult(ValidationResult(outcome.is_valid, expIdx, "validated"))
    /\ UNCHANGED <<validateArgs>>
    /\ UNCHANGED nonExpectationVars

\* `return ValidationReport(results)`, after the loop ended or was broken
ReturnReport ==
    /\ \/ expPc = "break"
       \/ expPc = "loop" /\ expIdx > Len(validateArgs[1].expectations)
    /\ expPc' = "returned"
    /\ UNCHANGED <<validateArgs, expIdx, reportResults, expSrc>>
    /\ UNCHANGED nonExpectationVars

\* the kinds of expectation: ComparativeExpectation and the others
ExpectationKinds == {"comparative", "column"}

ExpectationLists ==
    UNION {[1..n -> ExpectationKinds] : n \in 0..MaxExpectations}

InitExpectation ==
    /\ IdleAudit
    /\ IdleEngine
    /\ IdleExit
    /\ IdleEval
    /\ IdleParse
    /\ IdleEvaluate
    /\ IdleRoundTrip
    /\ IdleDrift
    /\ validateArgs \in {<<a>> : a \in [expectations : ExpectationLists,
                                        exit_on_failure : BOOLEAN,
                                        snapshot_repository : BOOLEAN]}
    /\ expIdx = 1
    /\ expPc = "loop"
    /\ reportResults = <<>>
    /\ expSrc = <<>>

NextExpectation == ValidateExpectation \/ ReturnReport

SpecExpectation == InitExpectation /\ [][NextExpectation]_vars

\* the expectation at position i was skipped for lack of a repository
Skipped(i) ==
    validateArgs[1].expectations[i] = "comparative" /\ ~validateArgs[1].snapshot_repository

\* the report holds one result for each of the first n expectations, in order
OneResultEach(n) ==
    /\ Len(reportResults) = n
    /\ \A j \in 1..n : reportResults[j].expectation = j

\* C28: validate_dataset with exit_on_failure set stops at the first
\* expectation whose result has is_valid False: the report holds one result
\* for each expectation up to and including that one and none for later
\* ones; a comparative expectation skipped for lack of a snapshot repository
\* has is_valid None, never stops validation and is not counted by
\* has_failures; without the flag (or without a False result) the report
\* holds exactly one result per expectation, in order.
C28_StopsAtFirstFailure ==
    /\ (expPc = "loop" /\ validateArgs # <<>>) =>
          /\ OneResultEach(expIdx - 1)
          /\ ~has_failures(reportResults) \/ ~validateArgs[1].exit_on_failure
    /\ (expPc = "break" /\ validateArgs # <<>>) =>
          /\ ~Skipped(expIdx)
          /\ IsFalse(reportResults[Len(reportResults)].is_valid)
    /\ (expPc = "returned" /\ validateArgs # <<>>) =>
          /\ \A j \in 1..Len(reportResults) :
                Skipped(j) => reportResults[j].is_valid.t = "none"
          /\ (\A j \in 1..Len(reportResults) : Skipped(j)) => ~has_failures(reportResults)
          /\ IF validateArgs[1].exit_on_failure /\ has_failures(reportResults)
             THEN /\ OneResultEach(Len(reportResults))
                  /\ Len(reportResults) <= Len(validateArgs[1].expectations)
                  /\ IsFalse(reportResults[Len(reportResults)].is_valid)
                  /\ \A j \in 1..(Len(reportResults) - 1) :
                        ~IsFalse(reportResults[j].is_valid)
             ELSE OneResultEach(Len(validateArgs[1].expectations))

\* with the flag set, a skipped comparative expectation was passed over and
\* the run stopped at the failing expectation after it, before the last one
C28_Witness ==
    /\ expPc = "returned" /\ validateArgs # <<>>
    /\ validateArgs[1].exit_on_failure
    /\ Len(validateArgs[1].expectations) = 3
    /\ Skipped(1)
    /\ Len(reportResults) = 2
    /\ reportResults[1].is_valid.t = "none"
    /\ IsFalse(reportResults[2].is_valid)
    /\ has_failures(reportResults)

---------------------------------------------------------------------------
(* DriftReport.add_violation *)

\* most add_violation calls made on one report
MaxViolations == 4

\* ExitCode members by name, with their values
ExitCode == [SUCCESS |-> 0, SCHEMA_DRIFT |-> 1, TYPE_MISMATCH |-> 2, UNKNOWN_ERROR |-> 3]

\* DriftResult(message, severity)
DriftResult(message, severity) == [message |-> message, severity |-> severity]

\* DriftReport(): drift_detected False, exit_code ExitCode.SUCCESS, no violations
DriftReport == [drift_detected |-> FALSE, exit_code |-> "SUCCESS", violations |-> <<>>]

add_violation_unguarded(self, message, severity) ==
    [self EXCEPT !.violations = Append(@, DriftResult(message, severity)),
                 !.exit_code = IF severity = "fatal" THEN "TYPE_MISMATCH"
                               ELSE IF severity = "warn" THEN "SCHEMA_DRIFT"
                               ELSE @]

\* DriftReport.add_violation: the report after the call
add_violation(self, message, severity) ==
    [self EXCEPT !.violations = Append(@, DriftResult(message, severity)),
                 !.exit_code = IF severity = "fatal" THEN "TYPE_MISMATCH"
                               ELSE IF severity = "warn" /\ @ = "SUCCESS"
                                    THEN "SCHEMA_DRIFT"
                                    ELSE @]

\* DriftReport.get_exit_code
drift_get_exit_code(self) == ExitCode[self.exit_code]

\* the severities callers pass: the two add_violation knows and others
DriftSeverities == {"fatal", "warn", "error", "info", "warning"}

CallAddViolation ==
    /\ driftReport # <<>>
    /\ Len(driftReport[1].violations) < MaxViolations
    /\ \E severity \in DriftSeverities :
          driftReport' = <<add_violation(driftReport[1], "drift", severity)>>
    /\ UNCHANGED nonDriftVars

InitDrift ==
    /\ IdleAudit
    /\ IdleEngine
    /\ IdleExit
    /\ IdleEval
    /\ IdleParse
    /\ IdleEvaluate
    /\ IdleRoundTrip
    /\ IdleExpectation
    /\ driftReport = <<DriftReport>>

NextDrift == CallAddViolation

SpecDrift == InitDrift /\ [][NextDrift]_vars

\* some violation of the severity was added to the report
Added(report, severity) ==
    \E k \in 1..Len(report.violations) : report.violations[k].severity = severity

\* the exit code the violations added so far call for
ExpectedExitCode(report) ==
    IF Added(report, "fatal") THEN "TYPE_MISMATCH"
    ELSE IF Added(report, "warn") THEN "SCHEMA_DRIFT"
    ELSE "SUCCESS"

\* C29: for a DriftReport created with the default exit code, after any
\* sequence of add_violation calls the exit code is TYPE_MISMATCH if and
\* only if some violation of severity 'fatal' was added, otherwise
\* SCHEMA_DRIFT if and only if some 'warn' violation was added, otherwise
\* SUCCESS; the exit code never returns to a less severe value, and a
\* violation of any other severity ('error' included) leaves it unchanged.
C29_ExitCodeFollowsWorstViolation ==
    /\ [](driftReport # <<>> =>
            /\ driftReport[1].exit_code = ExpectedExitCode(driftReport[1])
            /\ drift_get_exit_code(driftReport[1]) = ExitCode[ExpectedExitCode(driftReport[1])])
    /\ [][driftReport # <<>> =>
            /\ drift_get_exit_code(driftReport'[1]) >= drift_get_exit_code(driftReport[1])
            /\ driftReport'[1].violations[Len(driftReport'[1].violations)].severity
                  \notin {"fatal", "warn"}
               => driftReport'[1].exit_code = driftReport[1].exit_code]_vars

\* a 'warn' violation was added after a 'fatal' one, and an 'error' one last
C29_Witness ==
    /\ driftReport # <<>>
    /\ Len(driftReport[1].violations) = 3
    /\ driftReport[1].violations[1].severity = "fatal"
    /\ driftReport[1].violations[2].severity = "warn"
    /\ driftReport[1].violations[3].severity = "error"
    /\ driftReport[1].exit_code = "TYPE_MISMATCH"

---------------------------------------------------------------------------
(* The tokens parse hands to build_ast *)

\* the texts re.findall matched in the rule string, whole and in order
MatchedTexts(rule_string, found) ==
    [k \in 1..Len(found) |-> SubSeq(rule_string, found[k].start, found[k].end - 1)]

====
